---- MODULE Spec2Model ----
(***************************************************************************)
(* A model of the hybrid-PIC field solver of WarpX, HybridPICModel.cpp, of  *)
(* the external-field gather functor, GetExternalFields.cpp, and of the     *)
(* Breit-Wheeler engine wrapper, BreitWheelerEngineWrapper.cpp.             *)
(*                                                                         *)
(* The state machines below share one set of variables.                    *)
(*   Spec        the life cycle of a HybridPICModel object: its            *)
(*               constructor (ReadParameters, AllocateMFs),                *)
(*               AllocateLevelMFs, ClearLevel and InitData.                *)
(*   SpecRK      the per-step path of an initialised model:                *)
(*               BfieldEvolveRK, FieldPush, CalculateCurrentAmpere and     *)
(*               HybridPICSolveE; SpecRKFair adds its scheduling.          *)
(*   SpecStep    the time loop: external current, electron pressure.       *)
(*   SpecGrid    one grid point of the loops that fill an external field.  *)
(*   SpecGather  the constructor of GetExternalEBField.                    *)
(*   SpecBW      sequences of operations on a BreitWheelerEngine.          *)
(*                                                                         *)
(* A MultiFab is modelled by its index type, its component count and the   *)
(* value it holds at one representative grid point.  Field values are      *)
(* integers counted in units of 1/6, so that the half step dt/2 and the    *)
(* final weight 1/3 of the Runge-Kutta scheme are exact.                   *)
(***************************************************************************)
EXTENDS Integers, Sequences, FiniteSets, TLC

VARIABLES
    \* ---- the environment: build, input file, ambient mesh ----
    dim,                  \* WARPX_DIM_*: "1D_Z", "XZ", "RZ" or "3D"
    use_openpmd,          \* WARPX_USE_OPENPMD
    pp,                   \* the hybrid_pic_model.* entries of the input file
    stag,                 \* index type of the ambient current_fp/Bfield_fp/Efield_fp, level 0
    nlevs_max,            \* the constructor's argument
    finest_level,         \* warpx.finestLevel()
    t_new,                \* warpx.gett_new(lev), indexed by lev + 1
    ext_file,             \* metadata of the openPMD file read last, or NoFile
    \* ---- control ----
    pc,                   \* position of the program
    abort_msg,            \* "" or the message of the amrex::Abort / failed assertion
    \* ---- members of HybridPICModel ----
    m_gamma,
    m_elec_temp_set,      \* m_elec_temp was read and converted from eV to J
    m_n0_ref_set,
    B_ext_grid_s,
    m_external_field_has_time_dependence,
    IndexTypes,           \* Jx_IndexType .. Ez_IndexType
    electron_pressure_fp, \* the six per-level containers, indexed by lev + 1
    rho_fp_temp,
    current_fp_temp,
    current_fp_ampere,
    current_fp_external,
    bfield_fp_external,
    \* ---- fields borrowed from WarpX, indexed by lev + 1, three components ----
    Bfield,
    Efield,
    Jfield,
    rhofield,
    edge_lengths,         \* passed by const reference to every operation
    \* ---- the stencils of the finite-difference solver (black boxes) ----
    curl_tab,             \* table of the derivative stencil
    \* ---- locals of one BfieldEvolveRK call ----
    rk_lev,               \* the level of the per-level call in progress
    rk_dt,                \* its dt
    rk_stage,             \* the Runge-Kutta step in progress, 1 .. 4
    B_old,
    K,                    \* K[ii] has two components, K[ii][1] and K[ii][2]
    push_dt2,             \* 2 * dt argument of the FieldPush in progress
    \* ---- history (not program state) ----
    pushes,               \* 2 * dt of each FieldPush started by the call in progress
    push_B,               \* Bfield[rk_lev] handed to each of them
    after_B,              \* Bfield[rk_lev] each of them left
    steps,                \* the steps performed by the FieldPush in progress
    finalized,            \* number of Runge-Kutta sums formed by the call in progress
    calls,                \* number of finished BfieldEvolveRK calls
    solver_calls,         \* the stencil and boundary calls of the operation in progress
    \* ---- one grid point of a ParallelFor over an external field ----
    geom,                 \* warpx.Geom(lev): ProbDomain().lo and CellSizeArray(), doubled
    ijk,                  \* the indices the loop hands to the lambda
    ext_grid,             \* gridGlobalOffset, gridSpacing (doubled) and extent of the file mesh
    parser_xyz,           \* the (x, y, z) handed to the parser of each component, doubled
    file_idx,             \* the indices of the file array the interpolation reads
    \* ---- GetExternalEBField (GetExternalFields.cpp) ----
    m_E_ext_particle_s,   \* mypc.m_E_ext_particle_s
    m_B_ext_particle_s,   \* mypc.m_B_ext_particle_s
    m_Etype,
    m_Btype,
    \* ---- BreitWheelerEngine (BreitWheelerEngineWrapper.cpp) ----
    lookup_tables_initialized,
    innards,              \* the tables computes_lookup_tables fills
    bw_result,            \* what the last member function called returned
    bw_history            \* (not program state) the member functions called so far

envVars  == <<dim, use_openpmd, pp, stag, nlevs_max, finest_level, t_new, ext_file>>
ctlVars  == <<pc, abort_msg>>
parVars  == <<m_gamma, m_elec_temp_set, m_n0_ref_set, B_ext_grid_s>>
initVars == <<m_external_field_has_time_dependence, IndexTypes>>
ownVars  == <<electron_pressure_fp, rho_fp_temp, current_fp_temp, current_fp_ampere,
              current_fp_external, bfield_fp_external>>
borVars  == <<Bfield, Efield, Jfield, rhofield, edge_lengths, curl_tab>>
rkVars   == <<rk_lev, rk_dt, rk_stage, B_old, K, push_dt2>>
histVars == <<pushes, push_B, after_B, steps, finalized, calls, solver_calls>>
gridVars == <<geom, ijk, ext_grid, parser_xyz, file_idx>>
ebVars   == <<m_E_ext_particle_s, m_B_ext_particle_s, m_Etype, m_Btype>>
bwVars   == <<lookup_tables_initialized, innards, bw_result, bw_history>>
\* What the operations of HybridPICModel leave alone.
otherVars == <<gridVars, ebVars, bwVars>>
vars     == <<envVars, ctlVars, parVars, initVars, ownVars, borVars, rkVars, histVars,
              otherVars>>

----------------------------------------------------------------------------
\* Bounds of the model.
MaxLevs == 2        \* nlevs_max ranges over 1 .. MaxLevs
MaxDt   == 2        \* dt ranges over 1 .. MaxDt
MaxCalls == 1       \* BfieldEvolveRK calls per behaviour

----------------------------------------------------------------------------
\* Values.
Unset   == "unset"          \* a key absent from the input file
NoValue == << >>            \* a numeric key absent from the input file
NoMF    == [ix |-> << >>, ncomp |-> 0, v |-> 0]     \* an empty std::unique_ptr<MultiFab>
NoFile  == [dataOrder |-> "", geometry |-> "", axisLabels |-> << >>, data |-> << >>]
NoIndexType == << >>        \* an IndexType array before InitData fills it

Dims    == {"1D_Z", "XZ", "RZ", "3D"}
Comps   == {"x", "y", "z"}
CompOf(i) == <<"x", "y", "z">>[i]
FieldKeys == {"Jx", "Jy", "Jz", "Bx", "By", "Bz", "Ex", "Ey", "Ez"}

SpaceDim(d) == CASE d = "1D_Z" -> 1 [] d = "3D" -> 3 [] OTHER -> 2

\* IntVect(AMREX_D_DECL(1,1,1)): nodal in every dimension of the build.
AllNodal_CellCentered(d) == [i \in 1..SpaceDim(d) |-> 0]

AllNodal(d) == [i \in 1..SpaceDim(d) |-> 1]

\* The abort messages of the solver.
MsgElecTemp == "hybrid_pic_model.elec_temp must be specified when using the hybrid solver"
MsgN0Ref    == "hybrid_pic_model.n0_ref should be specified if hybrid_pic_model.gamma != 1"
MsgYee      == "Ohm's law E-solve only works with staggered (Yee) grids."
MsgRZModes  == "Ohm's law solver only support m = 0 azimuthal mode at present."
MsgOneLevel == "HybridPICSolveE: Only one level implemented for hybrid-PIC solver."
MsgRead1D   == "Reading fields from openPMD files is not supported in 1D"
MsgReadXZ   == "Reading from openPMD for external fields is not known to work with XZ (see #3828)"
MsgNoOpenPMD == "OpenPMD field reading requires OpenPMD support to be enabled"
MsgDataOrder == "Reading from files with non-C dataOrder is not implemented"
Msg3DGeom   == "3D can only read from files with cartesian geometry"
Msg3DLabels == "3D expects axisLabels {x, y, z}"
MsgRZGeom   == "RZ can only read from files with 'thetaMode'  geometry"
MsgRZLabels == "RZ expects axisLabels {r, z}"

----------------------------------------------------------------------------
\* The input file.  An analytic expression c0 + ct*t is held by its two
\* coefficients and contains the symbol t exactly when ct is not 0; an external
\* B expression has no time argument and is held by its value.
Expr(c0, ct)  == [c0 |-> c0, ct |-> ct]
Symbols(e)    == IF e.ct # 0 THEN {"t"} ELSE {}
Eval(e, t)    == e.c0 + e.ct * t

Styles == {Unset, "parse_b_ext_grid_function", "read_from_file", "constant"}

JChoices == { <<Expr(0, 0), Expr(0, 0), Expr(0, 0)>>,
              <<Expr(1, 0), Expr(2, 0), Expr(0, 0)>>,
              <<Expr(1, 0), Expr(0, 0), Expr(0, 1)>> }
BChoices == { <<7, 8, 9>> }

\* The openPMD files InitData may find at read_fields_from_path.
Files == [ dataOrder  : {"C", "F"},
           geometry   : {"cartesian", "thetaMode"},
           axisLabels : { <<"x", "y", "z">>, <<"x", "z">>, <<"r", "z">>, <<"x", "y">> },
           data       : { <<4, 5, 6>> } ]

\* Defaults of the members that HybridPICModel.H gives and ReadParameters keeps
\* when the key is absent.
DefaultGamma == 1
DefaultStyle == "default"

----------------------------------------------------------------------------
\* The ambient mesh.  Yee(d) is the staggering InitData expects in build d.
Yee(d) ==
    CASE d = "1D_Z" ->
           [k \in FieldKeys |->
              CASE k \in {"Ex", "Jx", "Ey", "Jy", "Bz"} -> <<1>>
                [] OTHER -> <<0>>]
      [] d = "3D" ->
           [k \in FieldKeys |->
              CASE k \in {"Ex", "Jx"} -> <<0, 1, 1>>
                [] k \in {"Ey", "Jy"} -> <<1, 0, 1>>
                [] k \in {"Ez", "Jz"} -> <<1, 1, 0>>
                [] k = "Bx" -> <<1, 0, 0>>
                [] k = "By" -> <<0, 1, 0>>
                [] OTHER    -> <<0, 0, 1>>]
      [] OTHER ->
           [k \in FieldKeys |->
              CASE k \in {"Ex", "Jx"} -> <<0, 1>>
                [] k \in {"Ey", "Jy"} -> <<1, 1>>
                [] k \in {"Ez", "Jz"} -> <<1, 0>>
                [] k = "Bx" -> <<1, 0>>
                [] k = "By" -> <<0, 0>>
                [] OTHER    -> <<0, 1>>]

\* s with one bit of one component flipped.
Flip(s, k, i) == [s EXCEPT ![k] = [s[k] EXCEPT ![i] = 1 - s[k][i]]]

\* The meshes of the model: the Yee mesh, every mesh one bit away from it, and
\* the collocated (all nodal) mesh.
StagChoices(d) ==
    {Yee(d)} \cup {Flip(Yee(d), k, i) : k \in FieldKeys, i \in 1..SpaceDim(d)}
             \cup {[k \in FieldKeys |-> AllNodal(d)]}

----------------------------------------------------------------------------
\* MultiFabs.
MF(ix, ncomps, v) == [ix |-> ix, ncomp |-> ncomps, v |-> v]
NoVec  == <<NoMF, NoMF, NoMF>>
Levels == 1..nlevs_max                 \* container index of level lev is lev + 1

SetVal(mf, v) == [mf EXCEPT !.v = v]
Vals(mfs) == [i \in 1..3 |-> mfs[i].v]

----------------------------------------------------------------------------
\* HybridPICModel::ReadParameters

\* queryWithParser / query: the member keeps its value when the key is absent.
Query(value, member) == IF value = Unset THEN member ELSE value
QueryWithParser(value, member) == IF value = NoValue THEN member ELSE value[1]

\* The message ReadParameters aborts with, "" when it aborts with none: the
\* elec_temp check comes first, then the n0_ref check, on the gamma just read.
ReadParametersCheck_NoN0(p, gamma) ==
    IF ~p.elec_temp THEN MsgElecTemp ELSE ""

ReadParametersCheck_NoElecTemp(p, gamma) ==
    IF gamma # 1 /\ ~p.n0_ref THEN MsgN0Ref ELSE ""

ReadParametersCheck(p, gamma) ==
    IF ~p.elec_temp THEN MsgElecTemp
    ELSE IF gamma # 1 /\ ~p.n0_ref THEN MsgN0Ref
    ELSE ""

\* The constructor's first statement.
ReadParameters ==
    /\ pc = "ctor"
    /\ abort_msg = ""
    /\ LET gamma == QueryWithParser(pp.gamma, m_gamma)
           msg   == ReadParametersCheck(pp, gamma)
       IN  /\ m_gamma' = gamma
           /\ abort_msg' = msg
           /\ IF msg = MsgElecTemp
              THEN UNCHANGED <<m_elec_temp_set, m_n0_ref_set, B_ext_grid_s, pc>>
              ELSE IF msg = MsgN0Ref
              THEN /\ m_elec_temp_set' = FALSE      \* read, not yet converted
                   /\ m_n0_ref_set' = pp.n0_ref
                   /\ UNCHANGED <<B_ext_grid_s, pc>>
              ELSE /\ m_elec_temp_set' = TRUE
                   /\ m_n0_ref_set' = pp.n0_ref
                   /\ B_ext_grid_s' = Query(pp.style, B_ext_grid_s)
                   /\ pc' = "ctor_alloc"
    /\ UNCHANGED <<otherVars, envVars, initVars, ownVars, borVars, rkVars, histVars>>

\* HybridPICModel::AllocateMFs, the constructor's second statement.
AllocateMFs ==
    /\ pc = "ctor_alloc"
    /\ abort_msg = ""
    /\ electron_pressure_fp' = [l \in Levels |-> NoMF]
    /\ rho_fp_temp'          = [l \in Levels |-> NoMF]
    /\ current_fp_temp'      = [l \in Levels |-> NoVec]
    /\ current_fp_ampere'    = [l \in Levels |-> NoVec]
    /\ current_fp_external'  = [l \in Levels |-> NoVec]
    /\ bfield_fp_external'   = [l \in Levels |-> NoVec]
    /\ pc' = "constructed"
    /\ UNCHANGED <<otherVars, envVars, abort_msg, parVars, initVars, borVars, rkVars, histVars>>

----------------------------------------------------------------------------
\* HybridPICModel::AllocateLevelMFs.  The caller passes the index types of the
\* ambient current and charge density; ncomps is its component count.
AllocateLevelMFs_KeepContent(lev, ncomps, jx_nodal_flag, jy_nodal_flag, jz_nodal_flag, rho_nodal_flag) ==
    /\ pc \in {"constructed", "initialized", "idle"}
    /\ abort_msg = ""
    /\ lev + 1 \in DOMAIN electron_pressure_fp
    /\ electron_pressure_fp' =
         [electron_pressure_fp EXCEPT ![lev + 1] = MF(rho_nodal_flag, ncomps, 0)]
    /\ rho_fp_temp' = [rho_fp_temp EXCEPT ![lev + 1] = MF(rho_nodal_flag, ncomps, 0)]
    /\ current_fp_temp' = [current_fp_temp EXCEPT ![lev + 1] =
         << MF(jx_nodal_flag, ncomps, 0), MF(jy_nodal_flag, ncomps, 0),
            MF(jz_nodal_flag, ncomps, 0) >>]
    /\ current_fp_ampere' = [current_fp_ampere EXCEPT ![lev + 1] =
         << MF(jx_nodal_flag, ncomps, 0), MF(jy_nodal_flag, ncomps, 0),
            MF(jz_nodal_flag, ncomps, 0) >>]
    /\ current_fp_external' = [current_fp_external EXCEPT ![lev + 1] =
         [c \in 1..3 |-> IF current_fp_external[lev + 1][c] # NoMF
                         THEN current_fp_external[lev + 1][c]
                         ELSE MF(AllNodal(dim), ncomps, 0)]]
    /\ bfield_fp_external' = [bfield_fp_external EXCEPT ![lev + 1] =
         [c \in 1..3 |-> IF bfield_fp_external[lev + 1][c] # NoMF
                         THEN bfield_fp_external[lev + 1][c]
                         ELSE MF(AllNodal(dim), ncomps, 0)]]
    /\ abort_msg' = IF dim = "RZ" /\ ncomps # 1 THEN MsgRZModes ELSE ""
    /\ UNCHANGED <<otherVars, envVars, pc, parVars, initVars, borVars, rkVars, histVars>>

AllocateLevelMFs(lev, ncomps, jx_nodal_flag, jy_nodal_flag, jz_nodal_flag, rho_nodal_flag) ==
    /\ pc \in {"constructed", "initialized", "idle"}
    /\ abort_msg = ""
    /\ lev + 1 \in DOMAIN electron_pressure_fp
    /\ electron_pressure_fp' =
         [electron_pressure_fp EXCEPT ![lev + 1] = MF(rho_nodal_flag, ncomps, 0)]
    /\ rho_fp_temp' = [rho_fp_temp EXCEPT ![lev + 1] = MF(rho_nodal_flag, ncomps, 0)]
    /\ current_fp_temp' = [current_fp_temp EXCEPT ![lev + 1] =
         << MF(jx_nodal_flag, ncomps, 0), MF(jy_nodal_flag, ncomps, 0),
            MF(jz_nodal_flag, ncomps, 0) >>]
    /\ current_fp_ampere' = [current_fp_ampere EXCEPT ![lev + 1] =
         << MF(jx_nodal_flag, ncomps, 0), MF(jy_nodal_flag, ncomps, 0),
            MF(jz_nodal_flag, ncomps, 0) >>]
    /\ current_fp_external' = [current_fp_external EXCEPT ![lev + 1] =
         << MF(AllNodal(dim), ncomps, 0), MF(AllNodal(dim), ncomps, 0),
            MF(AllNodal(dim), ncomps, 0) >>]
    /\ bfield_fp_external' = [bfield_fp_external EXCEPT ![lev + 1] =
         << MF(AllNodal(dim), ncomps, 0), MF(AllNodal(dim), ncomps, 0),
            MF(AllNodal(dim), ncomps, 0) >>]
    /\ abort_msg' = IF dim = "RZ" /\ ncomps # 1 THEN MsgRZModes ELSE ""
    /\ UNCHANGED <<otherVars, envVars, pc, parVars, initVars, borVars, rkVars, histVars>>

\* HybridPICModel::ClearLevel
ClearLevel(lev) ==
    /\ pc \in {"constructed", "initialized"}
    /\ abort_msg = ""
    /\ lev + 1 \in DOMAIN electron_pressure_fp
    /\ electron_pressure_fp' = [electron_pressure_fp EXCEPT ![lev + 1] = NoMF]
    /\ rho_fp_temp' = [rho_fp_temp EXCEPT ![lev + 1] = NoMF]
    /\ current_fp_temp' = [current_fp_temp EXCEPT ![lev + 1] = NoVec]
    /\ current_fp_ampere' = [current_fp_ampere EXCEPT ![lev + 1] = NoVec]
    /\ current_fp_external' = [current_fp_external EXCEPT ![lev + 1] = NoVec]
    /\ UNCHANGED bfield_fp_external
    /\ UNCHANGED <<otherVars, envVars, ctlVars, parVars, initVars, borVars, rkVars, histVars>>

----------------------------------------------------------------------------
\* HybridPICModel::InitData

\* The staggering check, per build.
AppropriateGrids_NoJ(d, s) ==
    CASE d = "1D_Z" ->
           /\ s["Ex"] = <<1>> /\ s["Ey"] = <<1>> /\ s["Ez"] = <<0>>
           /\ s["Bx"] = <<0>> /\ s["By"] = <<0>> /\ s["Bz"] = <<1>>
      [] d \in {"XZ", "RZ"} ->
           /\ s["Ex"] = <<0, 1>> /\ s["Ey"] = <<1, 1>> /\ s["Ez"] = <<1, 0>>
           /\ s["Bx"] = <<1, 0>> /\ s["By"] = <<0, 0>> /\ s["Bz"] = <<0, 1>>
      [] OTHER ->
           /\ s["Ex"] = <<0, 1, 1>> /\ s["Ey"] = <<1, 0, 1>> /\ s["Ez"] = <<1, 1, 0>>
           /\ s["Bx"] = <<1, 0, 0>> /\ s["By"] = <<0, 1, 0>> /\ s["Bz"] = <<0, 0, 1>>

AppropriateGrids(d, s) ==
    /\ CASE d = "1D_Z" ->
              /\ s["Ex"] = <<1>> /\ s["Ey"] = <<1>> /\ s["Ez"] = <<0>>
              /\ s["Bx"] = <<0>> /\ s["By"] = <<0>> /\ s["Bz"] = <<1>>
         [] d \in {"XZ", "RZ"} ->
              /\ s["Ex"] = <<0, 1>> /\ s["Ey"] = <<1, 1>> /\ s["Ez"] = <<1, 0>>
              /\ s["Bx"] = <<1, 0>> /\ s["By"] = <<0, 0>> /\ s["Bz"] = <<0, 1>>
         [] OTHER ->
              /\ s["Ex"] = <<0, 1, 1>> /\ s["Ey"] = <<1, 0, 1>> /\ s["Ez"] = <<1, 1, 0>>
              /\ s["Bx"] = <<1, 0, 0>> /\ s["By"] = <<0, 1, 0>> /\ s["Bz"] = <<0, 0, 1>>
    /\ s["Jx"] = s["Ex"] /\ s["Jy"] = s["Ey"] /\ s["Jz"] = s["Ez"]

\* The IndexType arrays copied to the device: the mesh's index type in the
\* dimensions of the build, 1 (nodal) in the unused ones.
DeviceIndexTypes(d, s) ==
    [k \in FieldKeys |-> [i \in 1..3 |-> IF i <= SpaceDim(d) THEN s[k][i] ELSE 1]]

\* warpx.gett_new(lev)
LevelTime_Level0(lev) == t_new[1]

LevelTime(lev) == t_new[lev + 1]

\* Per-level HybridPICModel::GetCurrentExternal on container cfe: the three
\* components are evaluated at the level's t_new.
GetCurrentExternalLev_OnlyTimeDependent(cfe, lev) ==
    [cfe EXCEPT ![lev + 1] =
        [c \in 1..3 |-> IF "t" \in Symbols(pp.Jexpr[c])
                        THEN SetVal(cfe[lev + 1][c], Eval(pp.Jexpr[c], LevelTime(lev)))
                        ELSE cfe[lev + 1][c]]]

GetCurrentExternalLev(cfe, lev) ==
    [cfe EXCEPT ![lev + 1] =
        [c \in 1..3 |-> SetVal(cfe[lev + 1][c], Eval(pp.Jexpr[c], LevelTime(lev)))]]

\* Per-level HybridPICModel::GetExternalBField on container bfe.
GetExternalBFieldLev(bfe, lev) ==
    [bfe EXCEPT ![lev + 1] = [c \in 1..3 |-> SetVal(bfe[lev + 1][c], pp.Bexpr[c])]]

\* Whether the build compiles the openPMD reader or its aborting stand-in.
ReaderCompiled(d, openpmd) == openpmd /\ d \notin {"1D_Z", "XZ"}

\* a[1] == w[1] && a[2] == w[2] && ..., left to right: the values it can have.
\* Indexing a std::vector past its end is undefined, so either value may result.
RECURSIVE LabelsEqual(_, _, _)
LabelsEqual(a, w, i) ==
    IF i > Len(w) THEN {TRUE}
    ELSE IF i > Len(a) THEN BOOLEAN
    ELSE IF a[i] # w[i] THEN {FALSE}
    ELSE LabelsEqual(a, w, i + 1)

\* The messages one ReadExternalBFieldFromFile call can end with, "" for a
\* completed read; f is the file found when the reader is compiled.
ReadOutcomes_No1D(d, openpmd, f) ==
    IF d = "1D_Z" THEN {""}
    ELSE IF d = "XZ" THEN {MsgReadXZ}
    ELSE IF ~openpmd THEN {MsgNoOpenPMD}
    ELSE IF f.dataOrder # "C" THEN {MsgDataOrder}
    ELSE IF d = "3D"
         THEN IF f.geometry # "cartesian" THEN {Msg3DGeom}
              ELSE {IF b THEN "" ELSE Msg3DLabels :
                      b \in LabelsEqual(f.axisLabels, <<"x", "y", "z">>, 1)}
         ELSE IF f.geometry # "thetaMode" THEN {MsgRZGeom}
              ELSE {IF b THEN "" ELSE MsgRZLabels :
                      b \in LabelsEqual(f.axisLabels, <<"r", "z">>, 1)}

ReadOutcomes(d, openpmd, f) ==
    IF d = "1D_Z" THEN {MsgRead1D}
    ELSE IF d = "XZ" THEN {MsgReadXZ}
    ELSE IF ~openpmd THEN {MsgNoOpenPMD}
    ELSE IF f.dataOrder # "C" THEN {MsgDataOrder}
    ELSE IF d = "3D"
         THEN IF f.geometry # "cartesian" THEN {Msg3DGeom}
              ELSE {IF b THEN "" ELSE Msg3DLabels :
                      b \in LabelsEqual(f.axisLabels, <<"x", "y", "z">>, 1)}
         ELSE IF f.geometry # "thetaMode" THEN {MsgRZGeom}
              ELSE {IF b THEN "" ELSE MsgRZLabels :
                      b \in LabelsEqual(f.axisLabels, <<"r", "z">>, 1)}

\* The three ReadExternalBFieldFromFile calls of one level on container bfe;
\* a call that opened no file has written nothing.
ReadExternalBFieldLev(bfe, lev, f) ==
    IF f.data = << >> THEN bfe
    ELSE [bfe EXCEPT ![lev + 1] = [c \in 1..3 |-> SetVal(bfe[lev + 1][c], f.data[c])]]

\* The external B field after the level loop of InitData has run over levels
\* 0 .. upto, by the style in B_ext_grid_s; any other style writes nothing.
RECURSIVE InitExternalB_DefaultParses(_, _, _)
InitExternalB_DefaultParses(bfe, upto, f) ==
    IF upto < 0 THEN bfe
    ELSE LET before == InitExternalB_DefaultParses(bfe, upto - 1, f)
         IN  IF B_ext_grid_s = "read_from_file"
             THEN ReadExternalBFieldLev(before, upto, f)
             ELSE GetExternalBFieldLev(before, upto)

RECURSIVE InitExternalB(_, _, _)
InitExternalB(bfe, upto, f) ==
    IF upto < 0 THEN bfe
    ELSE LET before == InitExternalB(bfe, upto - 1, f)
         IN  IF B_ext_grid_s = "parse_b_ext_grid_function"
             THEN GetExternalBFieldLev(before, upto)
             ELSE IF B_ext_grid_s = "read_from_file"
             THEN ReadExternalBFieldLev(before, upto, f)
             ELSE before

RECURSIVE InitExternalJ(_, _)
InitExternalJ(cfe, upto) ==
    IF upto < 0 THEN cfe
    ELSE GetCurrentExternalLev(InitExternalJ(cfe, upto - 1), upto)

InitData ==
    /\ pc = "constructed"
    /\ abort_msg = ""
    /\ \A lev \in 0..finest_level :
          /\ current_fp_external[lev + 1][1] # NoMF
          /\ bfield_fp_external[lev + 1][1] # NoMF
    /\ m_external_field_has_time_dependence' =
          (m_external_field_has_time_dependence
             \/ \E c \in 1..3 : "t" \in Symbols(pp.Jexpr[c]))
    /\ IF ~AppropriateGrids(dim, stag)
       THEN /\ abort_msg' = MsgYee
            /\ UNCHANGED <<IndexTypes, current_fp_external, bfield_fp_external,
                           ext_file, pc>>
       ELSE /\ IndexTypes' = DeviceIndexTypes(dim, stag)
            /\ \E f \in (IF B_ext_grid_s = "read_from_file" /\ ReaderCompiled(dim, use_openpmd)
                         THEN Files ELSE {ext_file}) :
               \E msg \in (IF B_ext_grid_s = "read_from_file"
                           THEN ReadOutcomes(dim, use_openpmd, f) ELSE {""}) :
                  /\ ext_file' = f
                  /\ abort_msg' = msg
                  /\ IF msg # ""
                     THEN \* the first read of level 0 aborts
                          /\ current_fp_external' = GetCurrentExternalLev(current_fp_external, 0)
                          /\ UNCHANGED <<bfield_fp_external, pc>>
                     ELSE /\ current_fp_external' = InitExternalJ(current_fp_external, finest_level)
                          /\ bfield_fp_external' = InitExternalB(bfield_fp_external, finest_level, f)
                          /\ pc' = "initialized"
    /\ UNCHANGED otherVars
    /\ UNCHANGED <<dim, use_openpmd, pp, stag, nlevs_max, finest_level, t_new>>
    /\ UNCHANGED <<parVars, electron_pressure_fp, rho_fp_temp, current_fp_temp,
                   current_fp_ampere, borVars, rkVars, histVars>>

----------------------------------------------------------------------------
\* The life cycle: what the surrounding WarpX object does with the model.

Zero3 == <<0, 0, 0>>
Ones3 == <<1, 1, 1>>
Zero2 == <<0, 0>>
TabSize == 3                       \* entries of the stencil table
ZeroTab == [i \in 0..(TabSize - 1) |-> 0]

\* Values of the grid-point, particle-gather and Breit-Wheeler variables.
UnitGeom == [lo |-> <<0, 0, 0>>, dx |-> <<2, 2, 2>>]
NoGrid   == [offset |-> << >>, spacing |-> << >>, extent |-> << >>]
NoTables == [ctrl |-> "", TTfunc_coords |-> << >>, TTfunc_data |-> << >>]
Unknown  == "Unknown"        \* ExternalFieldInitType::Unknown

\* No grid point of an external field is being visited.
NoGridPoint ==
    /\ geom = UnitGeom /\ ijk = <<0, 0, 0>> /\ ext_grid = NoGrid
    /\ parser_xyz = << >> /\ file_idx = << >>

\* No GetExternalEBField has been constructed.
NoGather ==
    /\ m_E_ext_particle_s = "none" /\ m_B_ext_particle_s = "none"
    /\ m_Etype = Unknown /\ m_Btype = Unknown

\* No BreitWheelerEngine has been constructed.
NoEngine ==
    /\ lookup_tables_initialized = FALSE /\ innards = NoTables
    /\ bw_result = "" /\ bw_history = << >>

OutsideHybrid == NoGridPoint /\ NoGather /\ NoEngine

\* The members before the constructor body runs, and no call in progress.
NoModel ==
    /\ m_gamma = DefaultGamma
    /\ m_elec_temp_set = FALSE
    /\ m_n0_ref_set = FALSE
    /\ B_ext_grid_s = DefaultStyle
    /\ m_external_field_has_time_dependence = FALSE
    /\ IndexTypes = [k \in FieldKeys |-> NoIndexType]
    /\ electron_pressure_fp = << >>
    /\ rho_fp_temp = << >>
    /\ current_fp_temp = << >>
    /\ current_fp_ampere = << >>
    /\ current_fp_external = << >>
    /\ bfield_fp_external = << >>
    /\ ext_file = NoFile

Unconstructed ==
    /\ pc = "ctor"
    /\ abort_msg = ""
    /\ NoModel

NoCall ==
    /\ rk_lev = 0 /\ rk_dt = 0 /\ rk_stage = 0 /\ B_old = Zero3
    /\ K = <<Zero2, Zero2, Zero2>>
    /\ push_dt2 = 0
    /\ pushes = << >> /\ push_B = << >> /\ after_B = << >> /\ steps = << >>
    /\ finalized = 0 /\ calls = 0
    /\ solver_calls = << >>

QuietMesh ==
    /\ Bfield = [l \in Levels |-> Zero3]
    /\ Efield = [l \in Levels |-> Zero3]
    /\ Jfield = [l \in Levels |-> Zero3]
    /\ rhofield = [l \in Levels |-> 0]
    /\ edge_lengths = [l \in Levels |-> Ones3]
    /\ curl_tab = ZeroTab

ValidParams == { [elec_temp |-> TRUE, gamma |-> NoValue, n0_ref |-> FALSE],
                 [elec_temp |-> TRUE, gamma |-> <<2>>, n0_ref |-> TRUE] }

WithExt(p, style, jexpr, bexpr) ==
    [elec_temp |-> p.elec_temp, gamma |-> p.gamma, n0_ref |-> p.n0_ref,
     style |-> style, Jexpr |-> jexpr, Bexpr |-> bexpr]

J0 == <<Expr(0, 0), Expr(0, 0), Expr(0, 0)>>
B0 == <<7, 8, 9>>

\* Every combination of the three validated parameters and of the style, on
\* a 3-D Yee mesh.
ScenarioParams ==
    /\ pp \in { WithExt(p, st, J0, B0) :
                  p \in [elec_temp : BOOLEAN, gamma : {NoValue, <<1>>, <<2>>}, n0_ref : BOOLEAN],
                  st \in Styles }
    /\ dim = "3D" /\ use_openpmd = TRUE
    /\ stag = Yee(dim)
    /\ nlevs_max \in 1..MaxLevs
    /\ finest_level = 0
    /\ t_new = [l \in Levels |-> 0]

\* Every mesh of StagChoices in every build, with valid parameters.
ScenarioStagger ==
    /\ pp = WithExt([elec_temp |-> TRUE, gamma |-> NoValue, n0_ref |-> FALSE], Unset, J0, B0)
    /\ dim \in Dims /\ use_openpmd = TRUE
    /\ stag \in StagChoices(dim)
    /\ nlevs_max = 1
    /\ finest_level = 0
    /\ t_new = [l \in Levels |-> 0]

\* Every sourcing of the external fields in every build, with valid
\* parameters on a Yee mesh.
ScenarioExternal ==
    /\ pp \in { WithExt(p, st, j, b) :
                  p \in ValidParams, st \in Styles, j \in JChoices, b \in BChoices }
    /\ dim \in Dims /\ use_openpmd \in BOOLEAN
    /\ stag = Yee(dim)
    /\ nlevs_max \in 1..MaxLevs
    /\ finest_level \in 0..(nlevs_max - 1)
    /\ \E t0 \in {0, 2} : t_new = [l \in Levels |-> t0]

Init ==
    /\ ScenarioParams \/ ScenarioStagger \/ ScenarioExternal
    /\ Unconstructed
    /\ NoCall
    /\ QuietMesh
    /\ OutsideHybrid

\* The component counts WarpX allocates with: 2 * n_rz_azimuthal_modes - 1 in
\* RZ, 1 otherwise.
NComps == IF dim = "RZ" THEN {1, 3} ELSE {1}

Next ==
    \/ ReadParameters
    \/ AllocateMFs
    \/ \E lev \in 0..(nlevs_max - 1), ncomps \in NComps :
          AllocateLevelMFs(lev, ncomps, stag["Jx"], stag["Jy"], stag["Jz"], AllNodal(dim))
    \/ \E lev \in 0..(nlevs_max - 1) : ClearLevel(lev)
    \/ InitData

Spec == Init /\ [][Next]_vars

----------------------------------------------------------------------------
\* Claims about the life cycle, checked under Spec.

GammaGiven(p) == IF p.gamma = NoValue THEN DefaultGamma ELSE p.gamma[1]

NothingSized ==
    /\ electron_pressure_fp = << >> /\ rho_fp_temp = << >>
    /\ current_fp_temp = << >> /\ current_fp_ampere = << >>
    /\ current_fp_external = << >> /\ bfield_fp_external = << >>

\* C1: with gamma != 1 and no n0_ref, construction ends in the fatal
\* configuration error once ReadParameters has run (it has run when m_gamma
\* holds the gamma of the input file), the constructor never gets past
\* ReadParameters, and no container is sized and no level field allocated.
C1_FatalBeforeAllocation ==
    (GammaGiven(pp) # 1 /\ ~pp.n0_ref) =>
        /\ pc = "ctor"
        /\ NothingSized
        /\ (m_gamma = GammaGiven(pp) => abort_msg \in {MsgElecTemp, MsgN0Ref})

C1_Witness ==
    /\ GammaGiven(pp) = 2 /\ ~pp.n0_ref /\ pp.elec_temp
    /\ abort_msg = MsgN0Ref /\ NothingSized

\* C2: every ReadParameters step aborts with the elec_temp error when
\* elec_temp is not supplied, whatever the other parameters are, and completes
\* without error when elec_temp is supplied and gamma = 1 or n0_ref is supplied.
C2_ReadParametersContract ==
    [][ ReadParameters =>
          /\ (~pp.elec_temp => abort_msg' = MsgElecTemp /\ pc' = "ctor")
          /\ (pp.elec_temp /\ (GammaGiven(pp) = 1 \/ pp.n0_ref)
                => abort_msg' = "" /\ pc' = "ctor_alloc") ]_vars

C2_Witness ==
    /\ ~pp.elec_temp /\ pp.n0_ref /\ GammaGiven(pp) = 2
    /\ pp.style = "read_from_file"
    /\ abort_msg = MsgElecTemp

\* The mesh has the Yee staggering of its build: E and B as in Yee(dim), and
\* each J component as the matching E component.
ExpectedYee ==
    /\ \A k \in {"Ex", "Ey", "Ez", "Bx", "By", "Bz"} : stag[k] = Yee(dim)[k]
    /\ stag["Jx"] = stag["Ex"] /\ stag["Jy"] = stag["Ey"] /\ stag["Jz"] = stag["Ez"]

\* C3: an InitData step on a mesh that is not exactly the Yee mesh ends in the
\* staggering error, the staggering error is raised on no Yee mesh, and
\* InitData never completes on a mesh with a deviating component.
C3_StaggeringChecked ==
    /\ [][ InitData =>
             IF ExpectedYee THEN abort_msg' # MsgYee
             ELSE abort_msg' = MsgYee /\ pc' = "constructed" ]_vars
    /\ [](pc = "initialized" => ExpectedYee)

C3_Witness ==
    /\ dim = "XZ"
    /\ stag = Flip(Yee("XZ"), "Jy", 2)
    /\ abort_msg = MsgYee

\* C5: with B_external_init_style set to a value other than the two known
\* ones, configuration or initialisation ends in a fatal error: InitData
\* never completes.
C5_UnknownStyleIsFatal ==
    (pp.style \notin {Unset, "parse_b_ext_grid_function", "read_from_file"})
        => ~(pc = "initialized" /\ abort_msg = "")

\* Every field the model owns on level lev is released.
LevelReleased(lev) ==
    /\ electron_pressure_fp[lev + 1] = NoMF
    /\ rho_fp_temp[lev + 1] = NoMF
    /\ \A c \in 1..3 :
          /\ current_fp_temp[lev + 1][c] = NoMF
          /\ current_fp_ampere[lev + 1][c] = NoMF
          /\ current_fp_external[lev + 1][c] = NoMF
          /\ bfield_fp_external[lev + 1][c] = NoMF

\* C14: after ClearLevel(lev) none of the fourteen fields of the level still
\* holds an allocation: electron pressure, scratch charge density, and the
\* three components of the scratch current, the Ampere current, the external
\* current and the external B field.
C14_ClearLevelReleasesAll ==
    [][ \A lev \in 0..(nlevs_max - 1) : ClearLevel(lev) => LevelReleased(lev)' ]_vars

\* The fourteen fields of level lev.
OwnedFields(lev) ==
    {electron_pressure_fp[lev + 1], rho_fp_temp[lev + 1]}
       \cup {current_fp_temp[lev + 1][c] : c \in 1..3}
       \cup {current_fp_ampere[lev + 1][c] : c \in 1..3}
       \cup {current_fp_external[lev + 1][c] : c \in 1..3}
       \cup {bfield_fp_external[lev + 1][c] : c \in 1..3}

LevelIsZero(lev) == \A mf \in OwnedFields(lev) : mf # NoMF /\ mf.v = 0

\* C15: after AllocateLevelMFs(lev, ...) the fourteen fields of the level
\* exist and hold 0, whatever the level held before the call.
C15_AllocateZeroes ==
    [][ \A lev \in 0..(nlevs_max - 1), ncomps \in NComps :
          AllocateLevelMFs(lev, ncomps, stag["Jx"], stag["Jy"], stag["Jz"], AllNodal(dim))
             => LevelIsZero(lev)' ]_vars

\* InitData filled the external fields of level 0 and a later
\* AllocateLevelMFs made them zero again.
C15_Witness ==
    /\ pc = "initialized" /\ abort_msg = ""
    /\ B_ext_grid_s = "parse_b_ext_grid_function"
    /\ pp.Jexpr[1].c0 # 0 /\ pp.Bexpr[1] # 0
    /\ LevelIsZero(0)
    /\ finest_level = 1 /\ bfield_fp_external[2][1].v = pp.Bexpr[1]

\* The index types of level lev after an allocation with the given flags, the
\* external fields at ext(c).
StaggeredAs(lev, jflags, rho_nodal_flag, ext) ==
    /\ electron_pressure_fp[lev + 1].ix = rho_nodal_flag
    /\ rho_fp_temp[lev + 1].ix = rho_nodal_flag
    /\ \A c \in 1..3 :
          /\ current_fp_temp[lev + 1][c].ix = jflags[c]
          /\ current_fp_ampere[lev + 1][c].ix = jflags[c]
          /\ current_fp_external[lev + 1][c].ix = ext[c]
          /\ bfield_fp_external[lev + 1][c].ix = ext[c]

\* C16 as stated: AllocateLevelMFs creates electron pressure and scratch rho
\* at the rho index type and component x/y/z of the scratch current, the
\* Ampere current, the external current and the external B field at the index
\* type passed for that component.
C16_StatedStaggering ==
    [][ \A lev \in 0..(nlevs_max - 1), ncomps \in NComps :
          AllocateLevelMFs(lev, ncomps, stag["Jx"], stag["Jy"], stag["Jz"], AllNodal(dim))
             => StaggeredAs(lev, <<stag["Jx"], stag["Jy"], stag["Jz"]>>, AllNodal(dim),
                            <<stag["Jx"], stag["Jy"], stag["Jz"]>>)' ]_vars

Nodal == [i \in 1..SpaceDim(dim) |-> 1]

\* C16 amended: electron pressure and scratch rho are created at the rho index
\* type, the components of the scratch current and of the Ampere current at
\* the index type passed for the component, and every component of the
\* external current and of the external B field nodal in every dimension,
\* whatever index types are passed.
C16_StaggeringExternalNodal ==
    [][ \A lev \in 0..(nlevs_max - 1), ncomps \in NComps :
          AllocateLevelMFs(lev, ncomps, stag["Jx"], stag["Jy"], stag["Jz"], AllNodal(dim))
             => StaggeredAs(lev, <<stag["Jx"], stag["Jy"], stag["Jz"]>>, AllNodal(dim),
                            <<Nodal, Nodal, Nodal>>)' ]_vars

C16_Witness ==
    /\ dim = "3D" /\ pc = "constructed"
    /\ current_fp_temp[1][1].ix = <<0, 1, 1>>
    /\ current_fp_ampere[1][2].ix = <<1, 0, 1>>
    /\ current_fp_external[1][1].ix = <<1, 1, 1>>
    /\ bfield_fp_external[1][3].ix = <<1, 1, 1>>

\* C19: in a 3-D run the read of a C-ordered file of geometry cartesian with
\* two axis labels ends in the axis-label error, and InitData completes a read
\* only for geometry cartesian and labels x, y, z.
C19_TwoLabelsAreFatal ==
    (dim = "3D" /\ B_ext_grid_s = "read_from_file" /\ ext_file # NoFile) =>
        /\ (ext_file.dataOrder = "C" /\ ext_file.geometry = "cartesian"
              /\ Len(ext_file.axisLabels) = 2) => abort_msg = Msg3DLabels
        /\ pc = "initialized" =>
              ext_file.geometry = "cartesian" /\ ext_file.axisLabels = <<"x", "y", "z">>

\* No external B value has been written.
ExternalBUnwritten ==
    \A l \in DOMAIN bfield_fp_external, c \in 1..3 : bfield_fp_external[l][c].v = 0

\* C20: in a 1-D build with B_external_init_style = read_from_file, InitData
\* ends in the error naming the 1-D restriction at the first read of level 0:
\* the external current of level 0 has been evaluated, that of no higher level
\* has, no external B value is written, and InitData never completes.
C20_OneDReadIsFatal ==
    /\ [][ (InitData /\ dim = "1D_Z" /\ B_ext_grid_s = "read_from_file" /\ ExpectedYee) =>
              /\ abort_msg' = MsgRead1D
              /\ pc' = "constructed"
              /\ bfield_fp_external' = bfield_fp_external
              /\ current_fp_external' = GetCurrentExternalLev(current_fp_external, 0) ]_vars
    /\ []((dim = "1D_Z" /\ B_ext_grid_s = "read_from_file") =>
              pc # "initialized" /\ ExternalBUnwritten)

C20_Witness ==
    /\ dim = "1D_Z" /\ B_ext_grid_s = "read_from_file"
    /\ abort_msg = MsgRead1D
    /\ finest_level = 1
    /\ current_fp_external[1][1].v # 0 /\ current_fp_external[2][1].v = 0
    /\ ExternalBUnwritten

\* C27: with B_external_init_style left unset no external B value is ever
\* written, whatever Bx/By/Bz expressions are given; a level holds the values
\* of the analytic expressions only under the style parse_b_ext_grid_function
\* and the values of the file only under read_from_file, never a mixture.
C27_UnsetStyleLeavesBZero ==
    /\ pp.style = Unset => ExternalBUnwritten
    /\ \A l \in DOMAIN bfield_fp_external :
          Vals(bfield_fp_external[l]) # Zero3 =>
             \/ /\ B_ext_grid_s = "parse_b_ext_grid_function"
                /\ Vals(bfield_fp_external[l]) = pp.Bexpr
             \/ /\ B_ext_grid_s = "read_from_file"
                /\ Vals(bfield_fp_external[l]) = ext_file.data

C27_Witness ==
    /\ pp.style = Unset /\ pp.Bexpr = <<7, 8, 9>>
    /\ pc = "initialized" /\ abort_msg = ""
    /\ finest_level = 1
    /\ \A l \in 1..2, c \in 1..3 : bfield_fp_external[l][c] # NoMF
    /\ ExternalBUnwritten

----------------------------------------------------------------------------
\* The finite-difference solver and the WarpX object, which the model calls
\* and does not implement.  A stencil is a function of the fields it is given;
\* the derivative it takes is the table curl_tab, any function of the value.

Idx(x)  == (x \div 3) % TabSize
D(x)    == curl_tab[Idx(x)]
Nxt(i)  == (i % 3) + 1
Prv(i)  == ((i + 1) % 3) + 1

CurlStencil(v) == [i \in 1..3 |-> D(v[Nxt(i)]) - D(v[Prv(i)])]

Cross(a, b) == [i \in 1..3 |-> a[Nxt(i)] * b[Prv(i)] - a[Prv(i)] * b[Nxt(i)]]

\* FiniteDifferenceSolver::HybridPICSolveE: Ohm's law.
OhmStencil(Jtot, Ji, Jext, B, Bext, rho, Pe, include_resistivity_term) ==
    LET dJ == [i \in 1..3 |-> Jtot[i] - Ji[i] - Jext[i]]
        Bt == [i \in 1..3 |-> B[i] + Bext[i]]
        X  == Cross(dJ, Bt)
    IN  [i \in 1..3 |-> (IF include_resistivity_term THEN dJ[i] ELSE 0) + X[i] - Pe * rho]

\* WarpX::EvolveB on one level: Faraday's law over the step dt2 / 2.
FaradayStencil(B, E, dt2) ==
    LET C == CurlStencil(E) IN [i \in 1..3 |-> B[i] - 3 * dt2 * C[i]]

----------------------------------------------------------------------------
\* HybridPICModel::CalculateCurrentAmpere, per level, on container cfa.
CalculateCurrentAmpereLev(cfa, B, lev) ==
    LET C == CurlStencil(B[lev + 1])
    IN  [cfa EXCEPT ![lev + 1] = [i \in 1..3 |-> SetVal(cfa[lev + 1][i], C[i])]]

\* The all-level CalculateCurrentAmpere: levels 0 .. upto in turn.
RECURSIVE CalculateCurrentAmpereAll(_, _, _)
CalculateCurrentAmpereAll(cfa, B, upto) ==
    IF upto < 0 THEN cfa
    ELSE CalculateCurrentAmpereLev(CalculateCurrentAmpereAll(cfa, B, upto - 1), B, upto)

\* The calls the per-level CalculateCurrentAmpere makes, in the order of its
\* body: the stencil of the solver on the B field it is given, then the
\* FillBoundary of the three components.
AmpereLevCalls_FillFirst(B, lev) ==
    << <<"FillBoundary", lev, 1>>, <<"FillBoundary", lev, 2>>, <<"FillBoundary", lev, 3>>,
       <<"CalculateCurrentAmpere", lev, B[lev + 1]>> >>

AmpereLevCalls(B, lev) ==
    << <<"CalculateCurrentAmpere", lev, B[lev + 1]>>,
       <<"FillBoundary", lev, 1>>, <<"FillBoundary", lev, 2>>, <<"FillBoundary", lev, 3>> >>

RECURSIVE AmpereAllCalls(_, _)
AmpereAllCalls(B, upto) ==
    IF upto < 0 THEN << >> ELSE AmpereAllCalls(B, upto - 1) \o AmpereLevCalls(B, upto)

\* HybridPICModel::HybridPICSolveE with a patch type: the stencil solve of one
\* level on E, followed by ApplyEfieldBoundary.
SolveELev_AlwaysResistive(E, lev, include_resistivity_term) ==
    [E EXCEPT ![lev + 1] =
        OhmStencil(Vals(current_fp_ampere[lev + 1]), Jfield[lev + 1],
                   Vals(current_fp_external[lev + 1]), Bfield[lev + 1],
                   Vals(bfield_fp_external[lev + 1]), rhofield[lev + 1],
                   electron_pressure_fp[lev + 1].v, TRUE)]

SolveELev(E, lev, include_resistivity_term) ==
    [E EXCEPT ![lev + 1] =
        OhmStencil(Vals(current_fp_ampere[lev + 1]), Jfield[lev + 1],
                   Vals(current_fp_external[lev + 1]), Bfield[lev + 1],
                   Vals(bfield_fp_external[lev + 1]), rhofield[lev + 1],
                   electron_pressure_fp[lev + 1].v, include_resistivity_term)]

\* The per-level HybridPICSolveE: whether it aborts once the solve is done.
OneLevelOnly_Never(lev) == FALSE

OneLevelOnly(lev) == lev > 0

\* The all-level HybridPICSolveE: the levels it solves before it returns or
\* aborts, lowest first.
SolvedLevels == {l \in 0..finest_level : \A m \in 0..(l - 1) : ~OneLevelOnly(m)}

RECURSIVE SolveEAll(_, _, _)
SolveEAll(E, upto, include_resistivity_term) ==
    IF upto < 0 THEN E
    ELSE LET before == SolveEAll(E, upto - 1, include_resistivity_term)
         IN  IF upto \in SolvedLevels
             THEN SolveELev(before, upto, include_resistivity_term)
             ELSE before

SolveEAborts == \E l \in SolvedLevels : OneLevelOnly(l)

\* The calls HybridPICSolveE with a patch type makes: the stencil with the
\* flag it was given, then ApplyEfieldBoundary(lev, patch_type).
SolveELevCalls(lev, include_resistivity_term) ==
    << <<"HybridPICSolveE", lev, include_resistivity_term>>,
       <<"ApplyEfieldBoundary", lev, "fine">> >>

RECURSIVE SolveEAllCalls(_, _)
SolveEAllCalls(upto, include_resistivity_term) ==
    IF upto < 0 THEN << >>
    ELSE SolveEAllCalls(upto - 1, include_resistivity_term)
            \o (IF upto \in SolvedLevels
                THEN SolveELevCalls(upto, include_resistivity_term) ELSE << >>)

----------------------------------------------------------------------------
\* HybridPICModel::FieldPush, a statement at a time.

\* The statements of FieldPush, in the order of its body.
FieldPushBody_SolveFirst ==
    <<"fp_solve", "fp_ampere", "fp_fillE", "fp_evolveB", "fp_fillB">>

FieldPushBody ==
    <<"fp_ampere", "fp_solve", "fp_fillE", "fp_evolveB", "fp_fillB">>

\* The position after statement p of FieldPush: its next statement, or the
\* caller's continuation after the last one.
AfterStatement(p) ==
    LET i == CHOOSE j \in 1..Len(FieldPushBody) : FieldPushBody[j] = p
    IN  IF i = Len(FieldPushBody) THEN "rk_after" ELSE FieldPushBody[i + 1]

InFieldPush(p) == /\ pc = p /\ abort_msg = ""

\* CalculateCurrentAmpere(Bfield, edge_lengths);
FP_CalculateCurrentAmpere_IntoJfield ==
    /\ InFieldPush("fp_ampere")
    /\ Jfield' = [l \in DOMAIN Jfield |->
                    IF l - 1 <= finest_level THEN CurlStencil(Bfield[l]) ELSE Jfield[l]]
    /\ steps' = Append(steps, <<"CalculateCurrentAmpere", 0>>)
    /\ pc' = AfterStatement("fp_ampere")
    /\ UNCHANGED <<otherVars, envVars, abort_msg, parVars, initVars, ownVars, Bfield, Efield, rhofield,
                   edge_lengths, curl_tab, rkVars, pushes, push_B, after_B, finalized, calls, solver_calls>>

FP_CalculateCurrentAmpere ==
    /\ InFieldPush("fp_ampere")
    /\ current_fp_ampere' = CalculateCurrentAmpereAll(current_fp_ampere, Bfield, finest_level)
    /\ solver_calls' = solver_calls \o AmpereAllCalls(Bfield, finest_level)
    /\ steps' = Append(steps, <<"CalculateCurrentAmpere", 0>>)
    /\ pc' = AfterStatement("fp_ampere")
    /\ UNCHANGED <<otherVars, envVars, abort_msg, parVars, initVars, electron_pressure_fp, rho_fp_temp,
                   current_fp_temp, current_fp_external, bfield_fp_external, borVars, rkVars,
                   pushes, push_B, after_B, finalized, calls>>

\* The flag FieldPush passes to HybridPICSolveE.
FieldPushResistivity == TRUE

\* HybridPICSolveE(Efield, Jfield, Bfield, rhofield, edge_lengths, true);
FP_HybridPICSolveE ==
    /\ InFieldPush("fp_solve")
    /\ Efield' = SolveEAll(Efield, finest_level, FieldPushResistivity)
    /\ solver_calls' = solver_calls \o SolveEAllCalls(finest_level, FieldPushResistivity)
    /\ steps' = Append(steps, <<"HybridPICSolveE", IF FieldPushResistivity THEN 1 ELSE 0>>)
    /\ IF SolveEAborts
       THEN abort_msg' = MsgOneLevel /\ pc' = pc
       ELSE abort_msg' = "" /\ pc' = AfterStatement("fp_solve")
    /\ UNCHANGED <<otherVars, envVars, parVars, initVars, ownVars, Bfield, Jfield, rhofield, edge_lengths, curl_tab,
                   rkVars, pushes, push_B, after_B, finalized, calls>>

\* warpx.FillBoundaryE(ng, nodal_sync);
FP_FillBoundaryE ==
    /\ InFieldPush("fp_fillE")
    /\ steps' = Append(steps, <<"FillBoundaryE", 0>>)
    /\ pc' = AfterStatement("fp_fillE")
    /\ UNCHANGED <<otherVars, envVars, abort_msg, parVars, initVars, ownVars, borVars, rkVars,
                   pushes, push_B, after_B, finalized, calls, solver_calls>>

\* warpx.EvolveB(dt, dt_type): every level is advanced.
FP_EvolveB ==
    /\ InFieldPush("fp_evolveB")
    /\ Bfield' = [l \in DOMAIN Bfield |->
                    IF l - 1 <= finest_level
                    THEN FaradayStencil(Bfield[l], Efield[l], push_dt2)
                    ELSE Bfield[l]]
    /\ steps' = Append(steps, <<"EvolveB", push_dt2>>)
    /\ pc' = AfterStatement("fp_evolveB")
    /\ UNCHANGED <<otherVars, envVars, abort_msg, parVars, initVars, ownVars, Efield, Jfield, rhofield, edge_lengths,
                   curl_tab, rkVars, pushes, push_B, after_B, finalized, calls, solver_calls>>

\* warpx.FillBoundaryB(ng, nodal_sync); and the return to BfieldEvolveRK.
FP_FillBoundaryB ==
    /\ InFieldPush("fp_fillB")
    /\ steps' = Append(steps, <<"FillBoundaryB", 0>>)
    /\ pc' = AfterStatement("fp_fillB")
    /\ UNCHANGED <<otherVars, envVars, abort_msg, parVars, initVars, ownVars, borVars, rkVars,
                   pushes, push_B, after_B, finalized, calls, solver_calls>>

----------------------------------------------------------------------------
\* HybridPICModel::BfieldEvolveRK

\* Twice the step of the FieldPush of each Runge-Kutta step: 0.5 * dt in
\* steps 1, 2 and 4, dt in step 3.
StageDt2_AllHalf(stage, dt) == dt

StageDt2(stage, dt) == IF stage = 3 THEN 2 * dt ELSE dt

\* The all-level BfieldEvolveRK is entered: its loop starts at level 0.  The
\* record of what the call does starts empty.
BfieldEvolveRK(dt) ==
    /\ pc = "idle"
    /\ abort_msg = ""
    /\ calls < MaxCalls
    /\ rk_dt' = dt
    /\ rk_lev' = 0
    /\ pc' = "rk_copy"
    /\ pushes' = << >> /\ push_B' = << >> /\ after_B' = << >> /\ steps' = << >>
    /\ finalized' = 0
    /\ solver_calls' = << >>
    /\ UNCHANGED <<otherVars, envVars, abort_msg, parVars, initVars, ownVars, borVars,
                   rk_stage, B_old, K, push_dt2, calls>>

\* The per-level call begins: B_old is a copy of the B field, K is zero.
RK_Copy ==
    /\ pc = "rk_copy"
    /\ abort_msg = ""
    /\ B_old' = Bfield[rk_lev + 1]
    /\ K' = [ii \in 1..3 |-> Zero2]
    /\ rk_stage' = 1
    /\ pc' = "rk_push"
    /\ pushes' = << >> /\ push_B' = << >> /\ after_B' = << >> /\ steps' = << >>
    /\ finalized' = 0
    /\ solver_calls' = << >>
    /\ UNCHANGED <<otherVars, envVars, abort_msg, parVars, initVars, ownVars, borVars,
                   rk_lev, rk_dt, push_dt2, calls>>

\* FieldPush is called for the step in progress.
RK_FieldPush ==
    /\ pc = "rk_push"
    /\ abort_msg = ""
    /\ push_dt2' = StageDt2(rk_stage, rk_dt)
    /\ pushes' = Append(pushes, StageDt2(rk_stage, rk_dt))
    /\ push_B' = Append(push_B, Bfield[rk_lev + 1])
    /\ steps' = << >>
    /\ pc' = FieldPushBody[1]
    /\ UNCHANGED <<otherVars, envVars, abort_msg, parVars, initVars, ownVars, borVars,
                   rk_lev, rk_dt, rk_stage, B_old, K, after_B, finalized, calls, solver_calls>>

\* After step 1: K[ii] component 0 = Bfield - B_old.
RK_Step1 ==
    /\ pc = "rk_after" /\ rk_stage = 1
    /\ abort_msg = ""
    /\ K' = [ii \in 1..3 |-> [K[ii] EXCEPT ![1] = Bfield[rk_lev + 1][ii] - B_old[ii]]]
    /\ after_B' = Append(after_B, Bfield[rk_lev + 1])
    /\ rk_stage' = 2
    /\ pc' = "rk_push"
    /\ UNCHANGED <<otherVars, envVars, abort_msg, parVars, initVars, ownVars, borVars,
                   rk_lev, rk_dt, B_old, push_dt2,
                   pushes, push_B, steps, finalized, calls, solver_calls>>

\* After step 2: Bfield -= K component 0, then K component 1 = Bfield - B_old.
Step2Field_KeepK0(b, k) == b

Step2Field(b, k) == b - k[1]

RK_Step2 ==
    /\ pc = "rk_after" /\ rk_stage = 2
    /\ abort_msg = ""
    /\ LET B2 == [ii \in 1..3 |-> Step2Field(Bfield[rk_lev + 1][ii], K[ii])]
       IN  /\ Bfield' = [Bfield EXCEPT ![rk_lev + 1] = B2]
           /\ K' = [ii \in 1..3 |-> [K[ii] EXCEPT ![2] = B2[ii] - B_old[ii]]]
    /\ after_B' = Append(after_B, Bfield[rk_lev + 1])
    /\ rk_stage' = 3
    /\ pc' = "rk_push"
    /\ UNCHANGED <<otherVars, envVars, abort_msg, parVars, initVars, ownVars, Efield, Jfield, rhofield, edge_lengths,
                   curl_tab, rk_lev, rk_dt, B_old, push_dt2,
                   pushes, push_B, steps, finalized, calls, solver_calls>>

\* After step 3: Bfield -= K component 1.
Step3Field_WrongComponent(b, k) == b - k[1]

Step3Field(b, k) == b - k[2]

RK_Step3 ==
    /\ pc = "rk_after" /\ rk_stage = 3
    /\ abort_msg = ""
    /\ Bfield' = [Bfield EXCEPT ![rk_lev + 1] =
                    [ii \in 1..3 |-> Step3Field(Bfield[rk_lev + 1][ii], K[ii])]]
    /\ after_B' = Append(after_B, Bfield[rk_lev + 1])
    /\ rk_stage' = 4
    /\ pc' = "rk_push"
    /\ UNCHANGED <<otherVars, envVars, abort_msg, parVars, initVars, ownVars, Efield, Jfield, rhofield, edge_lengths,
                   curl_tab, rk_lev, rk_dt, B_old, K, push_dt2,
                   pushes, push_B, steps, finalized, calls, solver_calls>>

\* After step 4, per component: Bfield -= B_old; K component 0 += Bfield;
\* K component 0 += 2 * K component 1; Bfield = B_old + K component 0 / 3.
\* RungeKuttaTerm is K component 0 after these statements.
RungeKuttaTerm_SingleK1(b, bold, k) == (k[1] + (b - bold)) + k[2]

RungeKuttaTerm(b, bold, k) == (k[1] + (b - bold)) + 2 * k[2]

RungeKuttaSum(bold, k0) == bold + k0 \div 3

RK_Finalize ==
    /\ pc = "rk_after" /\ rk_stage = 4
    /\ abort_msg = ""
    /\ LET B4 == Bfield[rk_lev + 1]
           K0 == [ii \in 1..3 |-> RungeKuttaTerm(B4[ii], B_old[ii], K[ii])]
       IN  /\ K' = [ii \in 1..3 |-> [K[ii] EXCEPT ![1] = K0[ii]]]
           /\ Bfield' = [Bfield EXCEPT ![rk_lev + 1] =
                           [ii \in 1..3 |-> RungeKuttaSum(B_old[ii], K0[ii])]]
    /\ after_B' = Append(after_B, Bfield[rk_lev + 1])
    /\ finalized' = finalized + 1
    /\ pc' = "rk_return"
    /\ UNCHANGED <<otherVars, envVars, abort_msg, parVars, initVars, ownVars, Efield, Jfield, rhofield, edge_lengths,
                   curl_tab, rk_lev, rk_dt, rk_stage, B_old, push_dt2, pushes, push_B, steps,
                   calls, solver_calls>>

\* The per-level call returns to the level loop of the all-level BfieldEvolveRK.
RK_Return ==
    /\ pc = "rk_return"
    /\ abort_msg = ""
    /\ IF rk_lev < finest_level
       THEN rk_lev' = rk_lev + 1 /\ pc' = "rk_copy" /\ calls' = calls
       ELSE rk_lev' = rk_lev /\ pc' = "idle" /\ calls' = calls + 1
    /\ UNCHANGED <<otherVars, envVars, abort_msg, parVars, initVars, ownVars, borVars,
                   rk_dt, rk_stage, B_old, K, push_dt2, pushes, push_B, after_B, steps,
                   finalized, solver_calls>>

----------------------------------------------------------------------------
\* The per-level HybridPICSolveE called from outside FieldPush: the solve and
\* the E boundary first, the level check after them.
HybridPICSolveE_CheckFirst(lev, include_resistivity_term) ==
    /\ pc = "idle"
    /\ abort_msg = ""
    /\ IF OneLevelOnly(lev)
       THEN /\ abort_msg' = MsgOneLevel
            /\ UNCHANGED <<Efield, solver_calls>>
       ELSE /\ abort_msg' = ""
            /\ Efield' = SolveELev(Efield, lev, include_resistivity_term)
            /\ solver_calls' = SolveELevCalls(lev, include_resistivity_term)
    /\ UNCHANGED <<otherVars, envVars, pc, parVars, initVars, ownVars, Bfield, Jfield, rhofield, edge_lengths,
                   curl_tab, rkVars, pushes, push_B, after_B, steps, finalized, calls>>

HybridPICSolveE(lev, include_resistivity_term) ==
    /\ pc = "idle"
    /\ abort_msg = ""
    /\ Efield' = SolveELev(Efield, lev, include_resistivity_term)
    /\ solver_calls' = SolveELevCalls(lev, include_resistivity_term)
    /\ abort_msg' = IF OneLevelOnly(lev) THEN MsgOneLevel ELSE ""
    /\ UNCHANGED <<otherVars, envVars, pc, parVars, initVars, ownVars, Bfield, Jfield, rhofield, edge_lengths,
                   curl_tab, rkVars, pushes, push_B, after_B, steps, finalized, calls>>

----------------------------------------------------------------------------
\* The per-step path: an initialised model on a 3-D Yee mesh, with every
\* level up to the finest allocated, and the fields WarpX hands to it.

BInit  == { <<0, 0, 0>>, <<6, -6, 12>>, <<1, 8, -3>> }
Slopes == {-1, 0, 1}

InitRK ==
    /\ dim = "3D" /\ use_openpmd = TRUE
    /\ pp = WithExt([elec_temp |-> TRUE, gamma |-> NoValue, n0_ref |-> FALSE], Unset,
                    <<Expr(1, 0), Expr(2, 0), Expr(0, 0)>>, B0)
    /\ stag = Yee(dim)
    /\ nlevs_max \in 1..MaxLevs
    /\ finest_level \in 0..(nlevs_max - 1)
    /\ t_new = [l \in Levels |-> 0]
    /\ ext_file = NoFile
    /\ pc = "idle"
    /\ abort_msg = ""
    /\ m_gamma = DefaultGamma
    /\ m_elec_temp_set = TRUE
    /\ m_n0_ref_set = FALSE
    /\ B_ext_grid_s = DefaultStyle
    /\ m_external_field_has_time_dependence = FALSE
    /\ IndexTypes = DeviceIndexTypes(dim, stag)
    /\ electron_pressure_fp =
         [l \in Levels |-> IF l - 1 <= finest_level THEN MF(AllNodal(dim), 1, 0) ELSE NoMF]
    /\ rho_fp_temp =
         [l \in Levels |-> IF l - 1 <= finest_level THEN MF(AllNodal(dim), 1, 0) ELSE NoMF]
    /\ current_fp_temp =
         [l \in Levels |-> IF l - 1 <= finest_level
            THEN <<MF(stag["Jx"], 1, 0), MF(stag["Jy"], 1, 0), MF(stag["Jz"], 1, 0)>>
            ELSE NoVec]
    /\ current_fp_ampere =
         [l \in Levels |-> IF l - 1 <= finest_level
            THEN <<MF(stag["Jx"], 1, 0), MF(stag["Jy"], 1, 0), MF(stag["Jz"], 1, 0)>>
            ELSE NoVec]
    /\ current_fp_external =
         [l \in Levels |-> IF l - 1 <= finest_level
            THEN [c \in 1..3 |-> MF(AllNodal(dim), 1, Eval(pp.Jexpr[c], 0))]
            ELSE NoVec]
    /\ bfield_fp_external =
         [l \in Levels |-> IF l - 1 <= finest_level
            THEN [c \in 1..3 |-> MF(AllNodal(dim), 1, 0)]
            ELSE NoVec]
    /\ \E b \in BInit : Bfield = [l \in Levels |-> b]
    /\ Efield = [l \in Levels |-> Zero3]
    /\ Jfield = [l \in Levels |-> <<1, 0, -1>>]
    /\ rhofield = [l \in Levels |-> 1]
    /\ edge_lengths = [l \in Levels |-> Ones3]
    /\ curl_tab \in [0..(TabSize - 1) -> Slopes]
    /\ NoCall
    /\ OutsideHybrid

NextRK ==
    \/ \E dt \in 1..MaxDt : BfieldEvolveRK(dt)
    \/ RK_Copy
    \/ RK_FieldPush
    \/ FP_CalculateCurrentAmpere
    \/ FP_HybridPICSolveE
    \/ FP_FillBoundaryE
    \/ FP_EvolveB
    \/ FP_FillBoundaryB
    \/ RK_Step1
    \/ RK_Step2
    \/ RK_Step3
    \/ RK_Finalize
    \/ RK_Return
    \/ \E lev \in 0..finest_level, incl \in BOOLEAN : HybridPICSolveE(lev, incl)

SpecRK == InitRK /\ [][NextRK]_vars

\* The solver is sequential code: a call in progress runs on.
SpecRKFair == SpecRK /\ WF_vars(NextRK)

----------------------------------------------------------------------------
\* Claims about the per-step path, checked under SpecRK.

\* C4: a per-level HybridPICSolveE call with lev > 0 ends in the one-level
\* error, and one with lev = 0 does not raise it, whether it is called from
\* outside or by the level loop that FieldPush runs; an aborted run takes no
\* further step, so the call never returns.
C4_OneLevelOnly ==
    [][ /\ abort_msg = ""
        /\ \A lev \in 0..finest_level, incl \in BOOLEAN :
              HybridPICSolveE(lev, incl) =>
                 abort_msg' = (IF lev > 0 THEN MsgOneLevel ELSE "")
        /\ FP_HybridPICSolveE => (abort_msg' = MsgOneLevel <=> finest_level > 0) ]_vars

C4_Witness ==
    /\ pc = "idle" /\ finest_level = 1
    /\ abort_msg = MsgOneLevel
    /\ Efield[2] # Zero3

\* The deltas as the specification captures them, per component.
DeltaK0 == [ii \in 1..3 |-> after_B[1][ii] - B_old[ii]]
DeltaK1 == [ii \in 1..3 |-> after_B[2][ii] - B_old[ii] - DeltaK0[ii]]
DeltaK2 == [ii \in 1..3 |-> after_B[3][ii] - B_old[ii] - DeltaK1[ii]]
DeltaK3 == [ii \in 1..3 |-> after_B[4][ii] - B_old[ii] - DeltaK2[ii]]

\* C6 as stated: the B field a per-level call leaves is
\* B_old + (dt / 3) * (0.5 * K0 + K1 + K2 + 0.5 * K3), here times 6.
C6_WeightedSumOfDeltas ==
    pc = "rk_return" =>
        \A ii \in 1..3 :
           6 * (Bfield[rk_lev + 1][ii] - B_old[ii]) =
              rk_dt * (DeltaK0[ii] + 2 * DeltaK1[ii] + 2 * DeltaK2[ii] + DeltaK3[ii])

\* C6 amended: the B field a per-level call leaves is
\* B_old + (1 / 3) * (K0 + 2 * K1 + K2 + K3), here times 3: the deltas carry
\* their own step sizes.
C6_SumOfDeltas ==
    pc = "rk_return" =>
        \A ii \in 1..3 :
           3 * (Bfield[rk_lev + 1][ii] - B_old[ii]) =
              DeltaK0[ii] + 2 * DeltaK1[ii] + DeltaK2[ii] + DeltaK3[ii]

C6_Witness ==
    /\ pc = "rk_return"
    /\ \A ii \in 1..3 : DeltaK0[ii] # 0 /\ DeltaK2[ii] # 0
    /\ DeltaK1 # DeltaK0 /\ DeltaK3 # DeltaK1
    /\ Bfield[rk_lev + 1] # B_old

\* FieldPush as a map of the B field of level lev: B |-> B + h * f(B), where
\* h = dt2 / 2 and, in units of 1/6, B + 3 * dt2 * f(B).
PushSlope(b, lev) ==
    LET E == OhmStencil(CurlStencil(b), Jfield[lev + 1], Vals(current_fp_external[lev + 1]),
                        b, Vals(bfield_fp_external[lev + 1]), rhofield[lev + 1],
                        electron_pressure_fp[lev + 1].v, TRUE)
        C == CurlStencil(E)
    IN  [i \in 1..3 |-> 0 - C[i]]

\* b + h * k, in units of 1/6, for h = dt2 / 2.
Advance(b, dt2, k) == [i \in 1..3 |-> b[i] + 3 * dt2 * k[i]]

\* bnew is the classical fourth-order Runge-Kutta update of b over dt:
\* b + (dt / 6) * (k0 + 2 * k1 + 2 * k2 + k3), with k0 = f(b),
\* k1 = f(b + dt/2 * k0), k2 = f(b + dt/2 * k1) and k3 = f(b + dt * k2).
IsClassicalRK4(bnew, b, dt, lev) ==
    \E k0 \in {PushSlope(b, lev)} :
    \E k1 \in {PushSlope(Advance(b, dt, k0), lev)} :
    \E k2 \in {PushSlope(Advance(b, dt, k1), lev)} :
    \E k3 \in {PushSlope(Advance(b, 2 * dt, k2), lev)} :
       bnew = [i \in 1..3 |-> b[i] + dt * (k0[i] + 2 * k1[i] + 2 * k2[i] + k3[i])]

\* C7: a per-level call with step dt leaves B equal to the classical
\* Runge-Kutta update B_old + (dt / 6) * (k0 + 2 * k1 + 2 * k2 + k3).
C7_ClassicalRK4 ==
    pc = "rk_return" => IsClassicalRK4(Bfield[rk_lev + 1], B_old, rk_dt, rk_lev)

C7_Witness ==
    /\ pc = "rk_return" /\ rk_dt = 2
    /\ Bfield[rk_lev + 1] # B_old
    /\ PushSlope(B_old, rk_lev) # PushSlope(Bfield[rk_lev + 1], rk_lev)
    /\ PushSlope(B_old, rk_lev) # PushSlope(after_B[1], rk_lev)

\* s is an initial part of t.
IsPrefix(s, t) == Len(s) <= Len(t) /\ \A i \in 1..Len(s) : s[i] = t[i]

ExpectedPushes(dt) == <<dt, dt, 2 * dt, dt>>

\* C8: a per-level call runs FieldPush four times, with steps dt/2, dt/2, dt,
\* dt/2 in this order, and forms the Runge-Kutta sum once, after the fourth;
\* on a single-level run a call that has begun reaches its return.
C8_FourPushesThenFinalize ==
    /\ [](/\ IsPrefix(pushes, ExpectedPushes(rk_dt))
          /\ finalized <= 1
          /\ (finalized = 1 => pushes = ExpectedPushes(rk_dt))
          /\ (pc = "rk_return" => finalized = 1)
          /\ (pc \in {"rk_push", "rk_after"} => Len(pushes) + (IF pc = "rk_push" THEN 1 ELSE 0) = rk_stage))
    /\ ((pc = "rk_copy" /\ finest_level = 0) ~> (pc = "rk_return" /\ finalized = 1))

C8_Witness ==
    /\ pc = "rk_return" /\ finalized = 1
    /\ pushes = <<2, 2, 4, 2>>

\* C9: FieldPush is handed B_old in step 1, B_old + K0 in step 2, B_old + K1
\* in step 3 and B_old + K2 in step 4, and B_old stays the B field that step 1
\* was handed.
C9_StageInputs ==
    /\ Len(push_B) >= 1 => push_B[1] = B_old
    /\ Len(push_B) >= 2 => push_B[2] = [ii \in 1..3 |-> B_old[ii] + DeltaK0[ii]]
    /\ Len(push_B) >= 3 => push_B[3] = [ii \in 1..3 |-> B_old[ii] + DeltaK1[ii]]
    /\ Len(push_B) >= 4 => push_B[4] = [ii \in 1..3 |-> B_old[ii] + DeltaK2[ii]]

C9_Witness ==
    /\ Len(push_B) = 4 /\ pc = "rk_return"
    /\ push_B[2] # B_old /\ push_B[3] # push_B[2] /\ push_B[4] # push_B[3]
    /\ DeltaK0 # DeltaK1 /\ Bfield[rk_lev + 1] # B_old

ExpectedSteps(dt2) ==
    << <<"CalculateCurrentAmpere", 0>>, <<"HybridPICSolveE", 1>>, <<"FillBoundaryE", 0>>,
       <<"EvolveB", dt2>>, <<"FillBoundaryB", 0>> >>

\* C10: the steps of a FieldPush are, in this order and each once, the Ampere
\* current, the E solve with the resistivity term, the E fill, the B push over
\* the given step and the B fill; a FieldPush that has returned has performed
\* all five; and between the E solve and the B push the Ampere current is the
\* curl of the B field and E is the Ohm's-law field of that current.
C10_FieldPushSequence ==
    /\ IsPrefix(steps, ExpectedSteps(push_dt2))
    /\ pc = "rk_after" => steps = ExpectedSteps(push_dt2)
    /\ (Len(steps) \in {2, 3} /\ abort_msg = "") =>
          \A lev \in 0..finest_level :
             /\ Vals(current_fp_ampere[lev + 1]) = CurlStencil(Bfield[lev + 1])
             /\ Efield[lev + 1] =
                  OhmStencil(Vals(current_fp_ampere[lev + 1]), Jfield[lev + 1],
                             Vals(current_fp_external[lev + 1]), Bfield[lev + 1],
                             Vals(bfield_fp_external[lev + 1]), rhofield[lev + 1],
                             electron_pressure_fp[lev + 1].v, TRUE)

C10_Witness ==
    /\ pc = "rk_after" /\ rk_stage = 3
    /\ steps = ExpectedSteps(4)
    /\ Bfield[rk_lev + 1] # push_B[3]

\* The calls of solver_calls that run the curl stencil on level lev.
AmpereEntries(lev) ==
    SelectSeq(solver_calls, LAMBDA e : e[1] = "CalculateCurrentAmpere" /\ e[2] = lev)

\* C21: every curl stencil call of CalculateCurrentAmpere is followed at once
\* by the boundary fill of the three components of its level and no fill
\* comes without its stencil call before it; a FieldPush runs the stencil once
\* per level, on the B field that FieldPush was handed, so that a per-level
\* BfieldEvolveRK of a single-level run has run it four times at its return;
\* and the stencil leaves the curl of that B field in the Ampere current.
C21_AmpereOncePerStage ==
    /\ \A p \in 1..Len(solver_calls) :
          LET e == solver_calls[p]
          IN  /\ e[1] = "CalculateCurrentAmpere" =>
                    /\ p + 3 <= Len(solver_calls)
                    /\ \A c \in 1..3 : solver_calls[p + c] = <<"FillBoundary", e[2], c>>
              /\ e[1] = "FillBoundary" =>
                    /\ p - e[3] >= 1
                    /\ solver_calls[p - e[3]][1] = "CalculateCurrentAmpere"
                    /\ solver_calls[p - e[3]][2] = e[2]
    /\ pc \in {"rk_push", "rk_after", "rk_return"}
                  \cup {FieldPushBody[i] : i \in 1..Len(FieldPushBody)} =>
          /\ \A lev \in 0..finest_level :
                Len(AmpereEntries(lev)) = Len(pushes) - (IF pc = "fp_ampere" THEN 1 ELSE 0)
          /\ \A k \in 1..Len(AmpereEntries(rk_lev)) : AmpereEntries(rk_lev)[k][3] = push_B[k]
    /\ (pc = "rk_return" /\ finest_level = 0) => Len(AmpereEntries(0)) = 4
    /\ (pc = "fp_solve" /\ abort_msg = "") =>
          \A lev \in 0..finest_level :
             Vals(current_fp_ampere[lev + 1]) = CurlStencil(Bfield[lev + 1])

C21_Witness ==
    /\ pc = "rk_return" /\ finest_level = 0
    /\ Len(AmpereEntries(0)) = 4
    /\ AmpereEntries(0)[1][3] # AmpereEntries(0)[2][3]
    /\ AmpereEntries(0)[3][3] # AmpereEntries(0)[4][3]
    /\ Vals(current_fp_ampere[1]) # Zero3

\* The E field of level lev that the Ohm stencil gives with flag incl.
OhmOf(lev, incl) ==
    OhmStencil(Vals(current_fp_ampere[lev + 1]), Jfield[lev + 1],
               Vals(current_fp_external[lev + 1]), Bfield[lev + 1],
               Vals(bfield_fp_external[lev + 1]), rhofield[lev + 1],
               electron_pressure_fp[lev + 1].v, incl)

\* C22: a HybridPICSolveE call runs the stencil of its level with the flag the
\* caller passed (TRUE from FieldPush) and leaves that stencil's E field; the
\* E boundary call of a level comes right after the stencil call of the same
\* level, and no E boundary call comes without it.
C22_BoundaryAfterSolve ==
    /\ [][ /\ \A lev \in 0..finest_level, incl \in BOOLEAN :
                HybridPICSolveE(lev, incl) =>
                   /\ solver_calls' = << <<"HybridPICSolveE", lev, incl>>,
                                         <<"ApplyEfieldBoundary", lev, "fine">> >>
                   /\ Efield'[lev + 1] = OhmOf(lev, incl)
           /\ FP_HybridPICSolveE =>
                 /\ \A lev \in SolvedLevels : Efield'[lev + 1] = OhmOf(lev, TRUE)
                 /\ \A p \in (Len(solver_calls) + 1)..Len(solver_calls') :
                       solver_calls'[p][1] = "HybridPICSolveE" => solver_calls'[p][3] = TRUE
                 /\ Len(solver_calls') = Len(solver_calls) + 2 * Cardinality(SolvedLevels) ]_vars
    /\ [](\A p \in 1..Len(solver_calls) :
            /\ solver_calls[p][1] = "HybridPICSolveE" =>
                  /\ p < Len(solver_calls)
                  /\ solver_calls[p + 1] = <<"ApplyEfieldBoundary", solver_calls[p][2], "fine">>
            /\ solver_calls[p][1] = "ApplyEfieldBoundary" =>
                  /\ p > 1
                  /\ solver_calls[p - 1][1] = "HybridPICSolveE"
                  /\ solver_calls[p - 1][2] = solver_calls[p][2])

\* A call from outside FieldPush that suppressed the resistive term.
C22_Witness ==
    /\ pc = "idle" /\ abort_msg = ""
    /\ solver_calls = << <<"HybridPICSolveE", 0, FALSE>>, <<"ApplyEfieldBoundary", 0, "fine">> >>
    /\ Efield[1] = OhmOf(0, FALSE)
    /\ OhmOf(0, FALSE) # OhmOf(0, TRUE)

\* C25: a per-level HybridPICSolveE call with lev > 0 has run the stencil
\* solve and the E boundary of that level when it raises the one-level error:
\* the E field of the level is the solved one at the abort.  The level loop of
\* FieldPush has solved level 0 and level 1 when it aborts.
C25_SolveBeforeAbort ==
    [][ /\ \A lev \in 1..finest_level, incl \in BOOLEAN :
            HybridPICSolveE(lev, incl) =>
               /\ abort_msg' = MsgOneLevel
               /\ Efield'[lev + 1] = OhmOf(lev, incl)
               /\ solver_calls' = SolveELevCalls(lev, incl)
        /\ (FP_HybridPICSolveE /\ finest_level > 0) =>
               /\ abort_msg' = MsgOneLevel
               /\ Efield'[1] = OhmOf(0, TRUE) /\ Efield'[2] = OhmOf(1, TRUE)
               /\ SolveELevCalls(1, TRUE)
                     = SubSeq(solver_calls', Len(solver_calls') - 1, Len(solver_calls')) ]_vars

C25_Witness ==
    /\ pc = "idle" /\ abort_msg = MsgOneLevel
    /\ solver_calls = SolveELevCalls(1, FALSE)
    /\ Efield[2] = OhmOf(1, FALSE) /\ Efield[2] # Zero3

----------------------------------------------------------------------------
\* The time loop: what WarpX does with an initialised model before its
\* BfieldEvolveRK calls.  The times, the deposited charge, the pressure and the
\* external current are set up, in any order and any number of times, before
\* the first call (calls = 0); the calls of the run then follow one another.

MaxTime == 2        \* t_new of a level ranges over 0 .. MaxTime

\* The all-level GetCurrentExternal: levels 0 .. upto in turn.
RECURSIVE GetCurrentExternalAll(_, _)
GetCurrentExternalAll(cfe, upto) ==
    IF upto < 0 THEN cfe
    ELSE GetCurrentExternalLev(GetCurrentExternalAll(cfe, upto - 1), upto)

GetCurrentExternal_IntoB ==
    /\ pc = "idle"
    /\ abort_msg = ""
    /\ calls = 0
    /\ bfield_fp_external' =
         IF ~m_external_field_has_time_dependence THEN bfield_fp_external
         ELSE GetCurrentExternalAll(bfield_fp_external, finest_level)
    /\ pc' = "gce_return"
    /\ UNCHANGED <<otherVars, envVars, abort_msg, parVars, initVars, electron_pressure_fp, rho_fp_temp,
                   current_fp_temp, current_fp_ampere, current_fp_external, borVars,
                   rkVars, histVars>>

\* HybridPICModel::GetCurrentExternal over all levels: it returns at once
\* when no expression depends on time.
GetCurrentExternal ==
    /\ pc = "idle"
    /\ abort_msg = ""
    /\ calls = 0
    /\ current_fp_external' =
         IF ~m_external_field_has_time_dependence THEN current_fp_external
         ELSE GetCurrentExternalAll(current_fp_external, finest_level)
    /\ pc' = "gce_return"
    /\ UNCHANGED <<otherVars, envVars, abort_msg, parVars, initVars, electron_pressure_fp, rho_fp_temp,
                   current_fp_temp, current_fp_ampere, bfield_fp_external, borVars,
                   rkVars, histVars>>

\* The caller has the result of GetCurrentExternal.
GetCurrentExternal_Return ==
    /\ pc = "gce_return"
    /\ abort_msg = ""
    /\ pc' = "idle"
    /\ UNCHANGED <<otherVars, envVars, abort_msg, parVars, initVars, ownVars, borVars, rkVars, histVars>>

\* The members ReadParameters read, in units where the values given are 1.
m_elec_temp == 1
m_n0_ref    == 1

RECURSIVE Pow(_, _)
Pow(x, n) == IF n = 0 THEN 1 ELSE x * Pow(x, n - 1)

\* ElectronPressure::get_pressure, the equation of state.
get_pressure(n0_ref, elec_temp, gamma, rho) ==
    IF gamma = 1 THEN elec_temp * rho
    ELSE n0_ref * elec_temp * Pow(rho \div n0_ref, gamma)

\* HybridPICModel::FillElectronPressureMF
FillElectronPressureMF(Pe_field, rho) ==
    SetVal(Pe_field, get_pressure(m_n0_ref, m_elec_temp, m_gamma, rho))

DtTypes == {"Full", "FirstHalf", "SecondHalf"}

\* HybridPICModel::CalculateElectronPressure over all levels: the full step
\* maps the ambient charge density, any other step the scratch charge density.
CalculateElectronPressure(a_dt_type) ==
    /\ pc = "idle"
    /\ abort_msg = ""
    /\ calls = 0
    /\ electron_pressure_fp' =
         [l \in DOMAIN electron_pressure_fp |->
            IF l - 1 > finest_level THEN electron_pressure_fp[l]
            ELSE IF a_dt_type = "Full"
                 THEN FillElectronPressureMF(electron_pressure_fp[l], rhofield[l])
                 ELSE FillElectronPressureMF(electron_pressure_fp[l], rho_fp_temp[l].v)]
    /\ UNCHANGED <<otherVars, envVars, ctlVars, parVars, initVars, rho_fp_temp, current_fp_temp,
                   current_fp_ampere, current_fp_external, bfield_fp_external, borVars,
                   rkVars, histVars>>

\* WarpX::Evolve enters the time loop with the initialised model.
Evolve ==
    /\ pc = "initialized"
    /\ abort_msg = ""
    /\ pc' = "idle"
    /\ UNCHANGED <<otherVars, envVars, abort_msg, parVars, initVars, ownVars, borVars, rkVars, histVars>>

\* WarpX advances the time of every level by one step.
AdvanceTime ==
    /\ pc = "idle"
    /\ abort_msg = ""
    /\ calls = 0
    /\ \A l \in Levels : t_new[l] < MaxTime
    /\ t_new' = [l \in Levels |-> t_new[l] + 1]
    /\ UNCHANGED otherVars
    /\ UNCHANGED <<dim, use_openpmd, pp, stag, nlevs_max, finest_level, ext_file>>
    /\ UNCHANGED <<ctlVars, parVars, initVars, ownVars, borVars, rkVars, histVars>>

RhoValues == {1, 2}

\* The particles deposit a new charge density and ion current on every level.
Deposit(r) ==
    /\ pc = "idle"
    /\ abort_msg = ""
    /\ calls = 0
    /\ \E l \in Levels : rhofield[l] # r
    /\ rhofield' = [l \in Levels |-> r]
    /\ Jfield' = [l \in Levels |-> <<r, 0, 0 - r>>]
    /\ UNCHANGED <<otherVars, envVars, ctlVars, parVars, initVars, ownVars, Bfield, Efield,
                   edge_lengths, curl_tab, rkVars, histVars>>

StepTab == [i \in 0..(TabSize - 1) |-> i - 1]

\* A 3-D run on a Yee mesh, from construction on, with an analytic external
\* B field and each analytic external current that is not zero; the levels
\* start at the same time or one step apart.
InitStep ==
    /\ pp \in { WithExt([elec_temp |-> TRUE, gamma |-> NoValue, n0_ref |-> FALSE],
                        "parse_b_ext_grid_function", j, B0) : j \in JChoices \ {J0} }
    /\ dim = "3D" /\ use_openpmd = TRUE
    /\ stag = Yee(dim)
    /\ nlevs_max \in 1..MaxLevs
    /\ finest_level \in {0, nlevs_max - 1}
    /\ t_new \in { [l \in Levels |-> 0], [l \in Levels |-> l - 1] }
    /\ Unconstructed
    /\ NoCall
    /\ Bfield = [l \in Levels |-> <<6, -6, 12>>]
    /\ Efield = [l \in Levels |-> Zero3]
    /\ Jfield = [l \in Levels |-> <<1, 0, -1>>]
    /\ rhofield = [l \in Levels |-> 1]
    /\ edge_lengths = [l \in Levels |-> Ones3]
    /\ curl_tab = StepTab
    /\ OutsideHybrid

NextStep ==
    \/ ReadParameters
    \/ AllocateMFs
    \/ \E lev \in 0..finest_level, ncomps \in NComps :
          AllocateLevelMFs(lev, ncomps, stag["Jx"], stag["Jy"], stag["Jz"], AllNodal(dim))
    \/ InitData
    \/ Evolve
    \/ AdvanceTime
    \/ \E r \in RhoValues : Deposit(r)
    \/ GetCurrentExternal
    \/ GetCurrentExternal_Return
    \/ \E a_dt_type \in DtTypes : CalculateElectronPressure(a_dt_type)
    \/ \E dt \in 1..MaxDt : BfieldEvolveRK(dt)
    \/ RK_Copy
    \/ RK_FieldPush
    \/ FP_CalculateCurrentAmpere
    \/ FP_HybridPICSolveE
    \/ FP_FillBoundaryE
    \/ FP_EvolveB
    \/ FP_FillBoundaryB
    \/ RK_Step1
    \/ RK_Step2
    \/ RK_Step3
    \/ RK_Finalize
    \/ RK_Return

SpecStep == InitStep /\ [][NextStep]_vars

----------------------------------------------------------------------------
\* Claims about the time loop, checked under SpecStep.

TimeFree == \A c \in 1..3 : "t" \notin Symbols(pp.Jexpr[c])

\* C11: when no external-current expression contains t, the external current
\* an all-level GetCurrentExternal call returns with equals, on every level,
\* the expressions evaluated from scratch at any time.
C11_CachedCurrentIsExact ==
    (pc = "gce_return" /\ TimeFree) =>
        \A lev \in 0..finest_level, c \in 1..3, t \in 0..MaxTime :
           current_fp_external[lev + 1][c].v = Eval(pp.Jexpr[c], t)

\* C12: when an external-current expression contains t, the external current
\* an all-level GetCurrentExternal call returns with is, on every level, the
\* expressions evaluated at the t_new that level has at the call.
C12_ReevaluatedAtCallTime ==
    (pc = "gce_return" /\ ~TimeFree) =>
        \A lev \in 0..finest_level, c \in 1..3 :
           current_fp_external[lev + 1][c].v = Eval(pp.Jexpr[c], t_new[lev + 1])

\* Two levels at different times, both later than the time of InitData.
C12_Witness ==
    /\ pc = "gce_return" /\ ~TimeFree
    /\ finest_level = 1
    /\ t_new[1] = 1 /\ t_new[2] = 2
    /\ current_fp_external[1][3].v = 1 /\ current_fp_external[2][3].v = 2

\* The positions inside a BfieldEvolveRK call and the FieldPush calls it makes.
InCall ==
    pc \in {"rk_copy", "rk_push", "rk_after", "rk_return"}
              \cup {FieldPushBody[i] : i \in 1..Len(FieldPushBody)}

\* C13: a step that changes the external B field is a step of InitData or an
\* allocation; no step of GetCurrentExternal, CalculateElectronPressure,
\* BfieldEvolveRK, FieldPush, CalculateCurrentAmpere or HybridPICSolveE does.
C13_ExternalBWrittenOnlyByInit ==
    /\ [][ bfield_fp_external' # bfield_fp_external =>
              \/ InitData
              \/ AllocateMFs
              \/ \E lev \in 0..(nlevs_max - 1), ncomps \in NComps :
                    AllocateLevelMFs(lev, ncomps, stag["Jx"], stag["Jy"], stag["Jz"],
                                     AllNodal(dim)) ]_vars
    /\ [][ (\/ GetCurrentExternal
            \/ GetCurrentExternal_Return
            \/ \E a_dt_type \in DtTypes : CalculateElectronPressure(a_dt_type)
            \/ \E dt \in 1..MaxDt : BfieldEvolveRK(dt)
            \/ InCall)
              => bfield_fp_external' = bfield_fp_external ]_vars

\* A whole step has run on the external B field that InitData evaluated.
C13_Witness ==
    /\ pc = "idle" /\ calls = 1
    /\ Vals(bfield_fp_external[1]) = <<7, 8, 9>>
    /\ current_fp_external[1][3].v # 0
    /\ electron_pressure_fp[1].v # 0
    /\ Bfield[1] # <<6, -6, 12>>

\* C17: at every E solve of FieldPush, a pressure field that has been computed
\* is the equation of state of the charge density the solve is handed.
C17_PressureFreshAtSolve ==
    [][ FP_HybridPICSolveE =>
          \A lev \in SolvedLevels :
             electron_pressure_fp[lev + 1].v # 0 =>
                electron_pressure_fp[lev + 1].v =
                   get_pressure(m_n0_ref, m_elec_temp, m_gamma, rhofield[lev + 1]) ]_vars

C26_FlagAndFullReevaluation ==
    /\ [](pc \notin {"ctor", "ctor_alloc", "constructed"} =>
            (m_external_field_has_time_dependence
               <=> \E c \in 1..3 : "t" \in Symbols(pp.Jexpr[c])))
    /\ [][ (GetCurrentExternal /\ m_external_field_has_time_dependence) =>
              \A lev \in 0..finest_level, c \in 1..3 :
                 current_fp_external'[lev + 1][c].v = Eval(pp.Jexpr[c], t_new[lev + 1]) ]_vars

\* Jx = 1 has no t and Jz = t has: both hold their values at the call.
C26_Witness ==
    /\ pc = "gce_return" /\ m_external_field_has_time_dependence
    /\ "t" \notin Symbols(pp.Jexpr[1]) /\ "t" \in Symbols(pp.Jexpr[3])
    /\ t_new[1] = 2
    /\ current_fp_external[1][1].v = 1 /\ current_fp_external[1][3].v = 2

----------------------------------------------------------------------------
\* One grid point of the loops that fill an external field: the per-level
\* GetExternalBField and GetCurrentExternal, which hand coordinates to the
\* parsers, and ReadExternalBFieldFromFile, which interpolates the file mesh.
\* Lengths are doubled, so that half a cell is an integer.

MaxIndex == 2       \* the valid nodes of a direction are 0 .. MaxIndex
NGrow    == 1       \* mf->nGrowVect(): ghost nodes on each side

\* The indices of a direction of the grown tile box.
GrownRange == (0 - NGrow)..(MaxIndex + NGrow)

\* The (i, j, k) that amrex::ParallelFor hands to the lambda: a box has the
\* directions of the build, and the indices beyond them are 0.
LoopIndices(d) ==
    { <<i, j, k>> : i \in GrownRange,
                    j \in (IF SpaceDim(d) >= 2 THEN GrownRange ELSE {0}),
                    k \in (IF SpaceDim(d) >= 3 THEN GrownRange ELSE {0}) }

\* Domains: ProbDomain().lo and CellSizeArray() per direction of the build.
Geoms == { UnitGeom, [lo |-> <<-4, 2, 6>>, dx |-> <<2, 4, 6>>] }

\* (1 - nodal_flag) * dx * 0.5
Fac(flag, dx) == (1 - flag) * (dx \div 2)

\* The x, y, z the lambda of one component computes from its (i, j, k) and
\* the index type of the component's MultiFab, per build.
LambdaCoordinates(d, flag, idx, g) ==
    CASE d = "1D_Z" ->
           << 0, 0, idx[2] * g.dx[1] + g.lo[1] + Fac(flag[1], g.dx[1]) >>
      [] d \in {"XZ", "RZ"} ->
           << idx[1] * g.dx[1] + g.lo[1] + Fac(flag[1], g.dx[1]),
              0,
              idx[2] * g.dx[2] + g.lo[2] + Fac(flag[2], g.dx[2]) >>
      [] OTHER ->
           << idx[1] * g.dx[1] + g.lo[1] + Fac(flag[1], g.dx[1]),
              idx[2] * g.dx[2] + g.lo[2] + Fac(flag[2], g.dx[2]),
              idx[3] * g.dx[3] + g.lo[3] + Fac(flag[3], g.dx[3]) >>

\* One iteration of the ParallelFor of the per-level GetExternalBField: each
\* of the three lambdas, with the index type of its own component.
GetExternalBField_Point(lev) ==
    /\ pc = "constructed"
    /\ abort_msg = ""
    /\ lev + 1 \in DOMAIN bfield_fp_external
    /\ bfield_fp_external[lev + 1][1] # NoMF
    /\ parser_xyz' = [f \in DOMAIN parser_xyz \cup {"B"} |->
                        IF f = "B"
                        THEN [c \in 1..3 |->
                                LambdaCoordinates(dim, bfield_fp_external[lev + 1][c].ix, ijk, geom)]
                        ELSE parser_xyz[f]]
    /\ UNCHANGED <<geom, ijk, ext_grid, file_idx, ebVars, bwVars>>
    /\ UNCHANGED <<envVars, ctlVars, parVars, initVars, ownVars, borVars, rkVars, histVars>>

\* One iteration of the ParallelFor of the per-level GetCurrentExternal.
GetCurrentExternal_Point(lev) ==
    /\ pc = "constructed"
    /\ abort_msg = ""
    /\ lev + 1 \in DOMAIN current_fp_external
    /\ current_fp_external[lev + 1][1] # NoMF
    /\ parser_xyz' = [f \in DOMAIN parser_xyz \cup {"J"} |->
                        IF f = "J"
                        THEN [c \in 1..3 |->
                                LambdaCoordinates(dim, current_fp_external[lev + 1][c].ix, ijk, geom)]
                        ELSE parser_xyz[f]]
    /\ UNCHANGED <<geom, ijk, ext_grid, file_idx, ebVars, bwVars>>
    /\ UNCHANGED <<envVars, ctlVars, parVars, initVars, ownVars, borVars, rkVars, histVars>>

\* The file meshes of the model, for the domain g: one whose nodes are the
\* valid nodes of the domain, and one that reaches two nodes further on every
\* side.  extent is the extent of the record component as openPMD gives it:
\* (x, y, z) in 3-D, (mode, r, z) in RZ.
FileGrids(d, g) ==
    { [offset  |-> [a \in 1..3 |-> g.lo[a] - m * g.dx[a]],
       spacing |-> g.dx,
       extent  |-> IF d = "RZ"
                   THEN <<1, MaxIndex + 1 + 2 * m, MaxIndex + 1 + 2 * m>>
                   ELSE [a \in 1..3 |-> MaxIndex + 1 + 2 * m]] : m \in {0, NGrow + 1} }

\* The coordinate of index ii in direction a of a box of index type flag.
BoxCoordinate(flag, ii, a, g) ==
    IF flag[a] = 1 THEN g.lo[a] + ii * g.dx[a]
    ELSE g.lo[a] + ii * g.dx[a] + g.dx[a] \div 2

\* std::floor((x - offset) / spacing)
FileIndex(x, a, fg) == (x - fg.offset[a]) \div fg.spacing[a]

\* The positions of the Array4 over the loaded data that the interpolation of
\* one grid point reads, and the sizes of that Array4.
InterpolationReads(d, flag, idx, g, fg) ==
    IF d = "RZ"
    THEN LET ii == IF idx[1] < 0 THEN 0 - idx[1] ELSE idx[1]
             ir == FileIndex(BoxCoordinate(flag, ii, 1, g), 1, fg)
             iz == FileIndex(BoxCoordinate(flag, idx[2], 2, g), 2, fg)
         IN  [size |-> <<fg.extent[1], fg.extent[3], fg.extent[2]>>,
              read |-> { <<0, iz + a, ir + b>> : a \in {0, 1}, b \in {0, 1} }]
    ELSE LET ix == FileIndex(BoxCoordinate(flag, idx[1], 1, g), 1, fg)
             iy == FileIndex(BoxCoordinate(flag, idx[2], 2, g), 2, fg)
             iz == FileIndex(BoxCoordinate(flag, idx[3], 3, g), 3, fg)
         IN  [size |-> <<fg.extent[3], fg.extent[2], fg.extent[1]>>,
              read |-> { <<iz + a, iy + b, ix + c>> : a \in {0, 1}, b \in {0, 1}, c \in {0, 1} }]

\* One iteration of the ParallelFor of ReadExternalBFieldFromFile for
\* component c of level lev, in a build that compiles the reader.
ReadExternalBFieldFromFile_Point(lev, c) ==
    /\ pc = "constructed"
    /\ abort_msg = ""
    /\ B_ext_grid_s = "read_from_file"
    /\ ReaderCompiled(dim, use_openpmd)
    /\ lev + 1 \in DOMAIN bfield_fp_external
    /\ bfield_fp_external[lev + 1][c] # NoMF
    /\ file_idx' = InterpolationReads(dim, bfield_fp_external[lev + 1][c].ix, ijk, geom, ext_grid)
    /\ UNCHANGED <<geom, ijk, ext_grid, parser_xyz, ebVars, bwVars>>
    /\ UNCHANGED <<envVars, ctlVars, parVars, initVars, ownVars, borVars, rkVars, histVars>>

\* A model in each build, from construction on, with a domain, a file mesh
\* and a grid point of the grown tile box.
InitGrid ==
    /\ pp = WithExt([elec_temp |-> TRUE, gamma |-> NoValue, n0_ref |-> FALSE],
                    "read_from_file", J0, B0)
    /\ dim \in Dims /\ use_openpmd = TRUE
    /\ stag = Yee(dim)
    /\ nlevs_max = 1
    /\ finest_level = 0
    /\ t_new = [l \in Levels |-> 0]
    /\ Unconstructed
    /\ NoCall
    /\ QuietMesh
    /\ geom \in Geoms
    /\ ijk \in LoopIndices(dim)
    /\ ext_grid \in FileGrids(dim, geom)
    /\ parser_xyz = << >> /\ file_idx = << >>
    /\ NoGather
    /\ NoEngine

NextGrid ==
    \/ ReadParameters
    \/ AllocateMFs
    \/ \E ncomps \in NComps :
          AllocateLevelMFs(0, ncomps, stag["Jx"], stag["Jy"], stag["Jz"], AllNodal(dim))
    \/ GetExternalBField_Point(0)
    \/ GetCurrentExternal_Point(0)
    \/ \E c \in 1..3 : ReadExternalBFieldFromFile_Point(0, c)

SpecGrid == InitGrid /\ [][NextGrid]_vars

----------------------------------------------------------------------------
\* Claims about one grid point, checked under SpecGrid.

\* The coordinate of the grid index along each direction of the build: the
\* index of direction a of the box is the a-th loop index; x and z are the
\* directions of a two-dimensional build, z the direction of the 1-D build.
GridCoordinates(d, flag, idx, g) ==
    LET at(a) == g.lo[a] + idx[a] * g.dx[a] + (IF flag[a] = 1 THEN 0 ELSE g.dx[a] \div 2)
    IN  CASE d = "1D_Z" -> <<0, 0, at(1)>>
          [] d \in {"XZ", "RZ"} -> <<at(1), 0, at(2)>>
          [] OTHER -> <<at(1), at(2), at(3)>>

\* C23: the coordinates handed to the parser of each component of the
\* external B field and of the external current at a grid point are, in each
\* direction of the build, lo + i * dx for a nodal direction and
\* lo + (i + 1/2) * dx for a cell-centred one, with i the grid index of that
\* direction, and 0 in the directions the build drops.
C23_CoordinateOfIndex ==
    /\ "B" \in DOMAIN parser_xyz =>
          \A c \in 1..3 :
             parser_xyz["B"][c] = GridCoordinates(dim, bfield_fp_external[1][c].ix, ijk, geom)
    /\ "J" \in DOMAIN parser_xyz =>
          \A c \in 1..3 :
             parser_xyz["J"][c] = GridCoordinates(dim, current_fp_external[1][c].ix, ijk, geom)

\* C24: every position of the loaded data that the interpolation of a grid
\* point reads lies inside the data: between 0 and extent - 1 on each axis.
C24_FileIndicesInBounds ==
    file_idx # << >> =>
        \A p \in file_idx.read, a \in 1..3 : 0 <= p[a] /\ p[a] <= file_idx.size[a] - 1

----------------------------------------------------------------------------
\* GetExternalEBField::GetExternalEBField (GetExternalFields.cpp): the
\* functor that gathers the external E and B fields on the particles of one
\* tile is constructed from the two style strings of the particle container.

MsgUnknownE  == "Unknown E_ext_particle_init_style"
MsgUnknownB  == "Unknown B_ext_particle_init_style"
Msg3DEither  == "3D can only read from files with cartesian or thetaMode geometry"

\* The style strings of the model: the ones the constructor compares with,
\* the parser style of the other field, and one it compares with nowhere.
GatherStyles == {"none", "constant", "parse_e_ext_particle_function",
                 "parse_b_ext_particle_function", "repeated_plasma_lens",
                 "read_from_file", "default"}

\* The files the constructor may find at m_read_fields_from_path.
GatherFiles == Files \cup { [dataOrder |-> "C", geometry |-> "cylindrical",
                               axisLabels |-> <<"r", "z">>, data |-> <<4, 5, 6>>] }

\* m_Etype and m_Btype after the assignments of the constructor; the
\* read_from_file block is compiled in the 3-D build only.
TypeOfE_ReadAnywhere(style, d) ==
    IF style \in {"none", "constant"} THEN "None"
    ELSE IF style = "parse_e_ext_particle_function" THEN "Parser"
    ELSE IF style = "repeated_plasma_lens" THEN "RepeatedPlasmaLens"
    ELSE IF style = "read_from_file" THEN "ReadFromFile"
    ELSE Unknown

TypeOfE(style, d) ==
    IF style \in {"none", "constant"} THEN "None"
    ELSE IF style = "parse_e_ext_particle_function" THEN "Parser"
    ELSE IF style = "repeated_plasma_lens" THEN "RepeatedPlasmaLens"
    ELSE IF style = "read_from_file" /\ d = "3D" THEN "ReadFromFile"
    ELSE Unknown

TypeOfB(style, d) ==
    IF style \in {"none", "constant"} THEN "None"
    ELSE IF style = "parse_b_ext_particle_function" THEN "Parser"
    ELSE IF style = "repeated_plasma_lens" THEN "RepeatedPlasmaLens"
    ELSE IF style = "read_from_file" /\ d = "3D" THEN "ReadFromFile"
    ELSE Unknown

\* Whether the constructor opens the file.
OpensFile(estyle, bstyle, d) ==
    d = "3D" /\ (estyle = "read_from_file" \/ bstyle = "read_from_file")

\* The messages the read_from_file block can end with for file f, "" when it
\* completes.
GatherFileOutcomes(f) ==
    IF f.geometry = "cartesian"
    THEN {IF b THEN "" ELSE Msg3DLabels : b \in LabelsEqual(f.axisLabels, <<"x", "y", "z">>, 1)}
    ELSE IF f.geometry = "thetaMode"
    THEN {IF b THEN "" ELSE MsgRZLabels : b \in LabelsEqual(f.axisLabels, <<"r", "z">>, 1)}
    ELSE {Msg3DEither}

\* The constructor: the two types are assigned, the file is opened, and the
\* two assertions on the types end it.
GetExternalEBField_ctor ==
    /\ pc = "gather_ctor"
    /\ abort_msg = ""
    /\ LET etype == TypeOfE(m_E_ext_particle_s, dim)
           btype == TypeOfB(m_B_ext_particle_s, dim)
           opens == OpensFile(m_E_ext_particle_s, m_B_ext_particle_s, dim)
       IN  /\ m_Etype' = etype
           /\ m_Btype' = btype
           /\ \E f \in (IF opens THEN GatherFiles ELSE {ext_file}) :
              \E msg \in (IF opens THEN GatherFileOutcomes(f) ELSE {""}) :
                 LET final == IF msg # "" THEN msg
                              ELSE IF etype = Unknown THEN MsgUnknownE
                              ELSE IF btype = Unknown THEN MsgUnknownB
                              ELSE ""
                 IN  /\ ext_file' = f
                     /\ abort_msg' = final
                     /\ pc' = IF final = "" THEN "gather_done" ELSE pc
    /\ UNCHANGED <<m_E_ext_particle_s, m_B_ext_particle_s, gridVars, bwVars>>
    /\ UNCHANGED <<dim, use_openpmd, pp, stag, nlevs_max, finest_level, t_new>>
    /\ UNCHANGED <<parVars, initVars, ownVars, borVars, rkVars, histVars>>

InitGather ==
    /\ pp = WithExt([elec_temp |-> TRUE, gamma |-> NoValue, n0_ref |-> FALSE], Unset, J0, B0)
    /\ dim \in Dims /\ use_openpmd = TRUE
    /\ stag = Yee(dim)
    /\ nlevs_max = 1
    /\ finest_level = 0
    /\ t_new = [l \in Levels |-> 0]
    /\ pc = "gather_ctor"
    /\ abort_msg = ""
    /\ NoModel
    /\ NoCall
    /\ QuietMesh
    /\ NoGridPoint
    /\ m_E_ext_particle_s \in GatherStyles
    /\ m_B_ext_particle_s \in GatherStyles
    /\ m_Etype = Unknown /\ m_Btype = Unknown
    /\ NoEngine

NextGather == GetExternalEBField_ctor

SpecGather == InitGather /\ [][NextGather]_vars

----------------------------------------------------------------------------
\* Claims about GetExternalEBField, checked under SpecGather.

KnownTypes == {"None", "Parser", "RepeatedPlasmaLens", "ReadFromFile"}

\* The style strings each field recognises, per build.
RecognizedE(style, d) ==
    \/ style \in {"none", "constant", "parse_e_ext_particle_function", "repeated_plasma_lens"}
    \/ style = "read_from_file" /\ d = "3D"

RecognizedB(style, d) ==
    \/ style \in {"none", "constant", "parse_b_ext_particle_function", "repeated_plasma_lens"}
    \/ style = "read_from_file" /\ d = "3D"

\* The constructor has run: it returned or it ended in an error.
GatherCtorRan == pc = "gather_done" \/ abort_msg # ""

\* C28 as stated: a construction that returns leaves both types known, the
\* styles none and constant give None, and a construction with a style that
\* its field does not recognise ends in the Unknown E error, or in the Unknown
\* B error when only the B style is not recognised.
C28_UnknownStyleMessage ==
    /\ pc = "gather_done" =>
          /\ m_Etype \in KnownTypes /\ m_Btype \in KnownTypes
          /\ m_E_ext_particle_s \in {"none", "constant"} => m_Etype = "None"
          /\ m_B_ext_particle_s \in {"none", "constant"} => m_Btype = "None"
    /\ GatherCtorRan =>
          /\ ~RecognizedE(m_E_ext_particle_s, dim) => abort_msg = MsgUnknownE
          /\ (RecognizedE(m_E_ext_particle_s, dim) /\ ~RecognizedB(m_B_ext_particle_s, dim))
                => abort_msg = MsgUnknownB

\* C28 amended: a construction that returns leaves both types known, the
\* styles none and constant give None, and a construction with a style that
\* its field does not recognise never returns: it ends in the Unknown E error,
\* or in the Unknown B error when only the B style is not recognised, or, in
\* the 3-D build with the other style read_from_file, in the geometry or
\* axis-label error of the file when that check fails first.
C28_UnknownStyleIsFatal ==
    /\ pc = "gather_done" =>
          /\ m_Etype \in KnownTypes /\ m_Btype \in KnownTypes
          /\ m_E_ext_particle_s \in {"none", "constant"} => m_Etype = "None"
          /\ m_B_ext_particle_s \in {"none", "constant"} => m_Btype = "None"
    /\ GatherCtorRan =>
          LET fileMsgs == IF OpensFile(m_E_ext_particle_s, m_B_ext_particle_s, dim)
                          THEN {Msg3DLabels, MsgRZLabels, Msg3DEither} ELSE {}
          IN  /\ ~RecognizedE(m_E_ext_particle_s, dim) =>
                    abort_msg \in {MsgUnknownE} \cup fileMsgs
              /\ (RecognizedE(m_E_ext_particle_s, dim) /\ ~RecognizedB(m_B_ext_particle_s, dim))
                    => abort_msg \in {MsgUnknownB} \cup fileMsgs

\* read_from_file for E in a build that is not 3-D, with the B style constant.
C28_Witness ==
    /\ dim = "XZ"
    /\ m_E_ext_particle_s = "read_from_file" /\ m_B_ext_particle_s = "constant"
    /\ abort_msg = MsgUnknownE
    /\ m_Btype = "None" /\ m_Etype = Unknown

----------------------------------------------------------------------------
\* BreitWheelerEngine (BreitWheelerEngineWrapper.cpp): the factory of the
\* optical-depth functors and the owner of the lookup tables.

\* The number of operations in one sequence on an engine.
MaxOps == 4

BWOps == {"build_optical_depth_functor", "build_evolve_functor",
          "computes_lookup_tables_default", "are_lookup_tables_initialized",
          "write_lookup_tables"}

\* The folders write_lookup_tables is called with.
Folders == {"", "tables"}

MsgAssertTables == "Assertion `lookup_tables_initialized' failed"

\* The value of lookup_tables_initialized in a new engine.
InitialTablesFlag == FALSE

\* WarpXBreitWheelerWrapperCtrl ctrl_default.
ctrl_default == "default"

\* What the library engine built with ctrl exports after computing the
\* dN/dt table.
export_innards(ctrl) ==
    [bw_ctrl |-> ctrl, TTfunc_table_coords |-> <<1, 2>>, TTfunc_table_data |-> <<3, 4>>]

\* computes_lookup_tables(ctrl): the innards after the copy.
computes_lookup_tables(ctrl) ==
    LET bw_innards_picsar == export_innards(ctrl)
    IN  [ctrl          |-> bw_innards_picsar.bw_ctrl,
         TTfunc_coords |-> bw_innards_picsar.TTfunc_table_coords,
         TTfunc_data   |-> bw_innards_picsar.TTfunc_table_data]

\* One operation is recorded with what it returned.
Returned(op, ret) ==
    /\ bw_result' = ret
    /\ bw_history' = Append(bw_history, [op |-> op, ret |-> ret])

BWCallable ==
    /\ pc = "engine"
    /\ abort_msg = ""
    /\ Len(bw_history) < MaxOps

BWFrame ==
    UNCHANGED <<envVars, pc, parVars, initVars, ownVars, borVars, rkVars, histVars,
                gridVars, ebVars>>

build_optical_depth_functor ==
    /\ BWCallable
    /\ Returned("build_optical_depth_functor", "functor")
    /\ UNCHANGED <<lookup_tables_initialized, innards, abort_msg>>
    /\ BWFrame

build_evolve_functor_NoAssert ==
    /\ BWCallable
    /\ Returned("build_evolve_functor", "functor")
    /\ UNCHANGED <<lookup_tables_initialized, innards, abort_msg>>
    /\ BWFrame

build_evolve_functor ==
    /\ BWCallable
    /\ IF lookup_tables_initialized
       THEN /\ Returned("build_evolve_functor", "functor")
            /\ UNCHANGED abort_msg
       ELSE /\ Returned("build_evolve_functor", "assert")
            /\ abort_msg' = MsgAssertTables
    /\ UNCHANGED <<lookup_tables_initialized, innards>>
    /\ BWFrame

computes_lookup_tables_default ==
    /\ BWCallable
    /\ innards' = computes_lookup_tables(ctrl_default)
    /\ lookup_tables_initialized' = TRUE
    /\ Returned("computes_lookup_tables_default", "void")
    /\ UNCHANGED abort_msg
    /\ BWFrame

are_lookup_tables_initialized ==
    /\ BWCallable
    /\ Returned("are_lookup_tables_initialized",
                IF lookup_tables_initialized THEN "true" ELSE "false")
    /\ UNCHANGED <<lookup_tables_initialized, innards, abort_msg>>
    /\ BWFrame

write_lookup_tables_AlwaysTrue(folder) ==
    /\ BWCallable
    /\ Returned("write_lookup_tables", "true")
    /\ UNCHANGED <<lookup_tables_initialized, innards, abort_msg>>
    /\ BWFrame

\* The dump is assembled in a local vector from the innards; the member
\* function is const.
write_lookup_tables(folder) ==
    /\ BWCallable
    /\ Returned("write_lookup_tables",
                IF ~lookup_tables_initialized THEN "false" ELSE "true")
    /\ UNCHANGED <<lookup_tables_initialized, innards, abort_msg>>
    /\ BWFrame

\* BreitWheelerEngine::BreitWheelerEngine (){}: a new engine, and nothing of
\* the other two classes in progress.
InitBW ==
    /\ pp = WithExt([elec_temp |-> TRUE, gamma |-> NoValue, n0_ref |-> FALSE], Unset, J0, B0)
    /\ dim = "3D" /\ use_openpmd = TRUE
    /\ stag = Yee(dim)
    /\ nlevs_max = 1
    /\ finest_level = 0
    /\ t_new = [l \in Levels |-> 0]
    /\ pc = "engine"
    /\ abort_msg = ""
    /\ NoModel
    /\ NoCall
    /\ QuietMesh
    /\ NoGridPoint
    /\ NoGather
    /\ lookup_tables_initialized = InitialTablesFlag
    /\ innards = NoTables
    /\ bw_result = ""
    /\ bw_history = << >>

NextBW ==
    \/ build_optical_depth_functor
    \/ build_evolve_functor
    \/ computes_lookup_tables_default
    \/ are_lookup_tables_initialized
    \/ \E folder \in Folders : write_lookup_tables(folder)

SpecBW == InitBW /\ [][NextBW]_vars

----------------------------------------------------------------------------
\* Claims about BreitWheelerEngine, checked under SpecBW.

\* The operation that the step from this state to the next has recorded.
BWStep == Len(bw_history') = Len(bw_history) + 1
BWLast == bw_history'[Len(bw_history')]

\* computes_lookup_tables_default occurs in the sequence h.
ComputedIn(h) == \E k \in 1..Len(h) : h[k].op = "computes_lookup_tables_default"

\* C29: in every sequence of operations, build_evolve_functor returns its
\* functor only if computes_lookup_tables_default was called earlier in the
\* sequence, and fails its assertion otherwise; no operation sets a true
\* lookup_tables_initialized back to false; build_optical_depth_functor
\* returns its functor in every state.
C29_EvolveNeedsTables ==
    [][ /\ lookup_tables_initialized => lookup_tables_initialized'
        /\ (BWStep /\ BWLast.op = "build_evolve_functor") =>
              /\ BWLast.ret = "functor" => ComputedIn(bw_history)
              /\ ~ComputedIn(bw_history) =>
                    (BWLast.ret = "assert" /\ abort_msg' = MsgAssertTables)
        /\ (BWStep /\ BWLast.op = "build_optical_depth_functor") =>
              (BWLast.ret = "functor" /\ abort_msg' = "")
      ]_vars

\* Both cases in one sequence cannot occur, since the assertion ends the run:
\* tables computed, then the evolve functor and the optical-depth functor
\* built.
C29_Witness ==
    /\ Len(bw_history) >= 3
    /\ bw_history[1].op = "computes_lookup_tables_default"
    /\ bw_history[2] = [op |-> "build_evolve_functor", ret |-> "functor"]
    /\ bw_history[3] = [op |-> "build_optical_depth_functor", ret |-> "functor"]
    /\ lookup_tables_initialized

====
